---- MODULE Spec2Model ----
(***************************************************************************)
(* ATENA-AI self-improvement control loop (src/src/meta_agent/            *)
(* self_improvement.py): the Configuration Store, the Optimization        *)
(* Planner, the Applier, the Impact Monitor, the Rollback Controller and  *)
(* the Optimization History, driven by the periodic cycle of              *)
(* SelfImprovement.start; the Action Queue it drains; and the MetaAgent   *)
(* of src/src/meta_agent/meta_agent.py (record_metrics, record_decision). *)
(*                                                                         *)
(* Numbers are exact rationals <<n, d>> (d > 0, lowest terms): the code   *)
(* multiplies parameter values by 0.7, 0.8, 0.9, 1.1, 1.2, 1.3 and        *)
(* divides metric means, so integers alone cannot carry the values.       *)
(* A Python dict is a sequence of entries in insertion order.  Python's   *)
(* None is the empty tuple where the code reads it by .get or by truth    *)
(* value (a store value, rollback_data); the planner's None is the record *)
(* NoOptimization.                                                         *)
(***************************************************************************)
EXTENDS Integers, Sequences, FiniteSets, TLC

\* ------------------------------------------------------------ rationals

RECURSIVE GCD(_, _)
GCD(a, b) == IF b = 0 THEN a ELSE GCD(b, a % b)

Abs(n) == IF n < 0 THEN -n ELSE n

Rat(n, d) ==
    LET g == GCD(Abs(n), Abs(d))
        s == IF d < 0 THEN -1 ELSE 1
    IN  <<(s * n) \div g, (s * d) \div g>>

Int2Rat(n) == <<n, 1>>
RAdd(a, b) == Rat(a[1] * b[2] + b[1] * a[2], a[2] * b[2])
RSub(a, b) == Rat(a[1] * b[2] - b[1] * a[2], a[2] * b[2])
RMul(a, b) == Rat(a[1] * b[1], a[2] * b[2])
RDiv(a, b) == Rat(a[1] * b[2], a[2] * b[1])
RLess(a, b) == a[1] * b[2] < b[1] * a[2]
RLeq(a, b) == a[1] * b[2] <= b[1] * a[2]
\* Python's min(a, b) and max(a, b): the first argument wins a tie.
RMin(a, b) == IF RLess(b, a) THEN b ELSE a
RMax(a, b) == IF RLess(a, b) THEN b ELSE a

None == <<>>

\* ------------------------------------------------------------ dicts

\* A dict is a sequence of entries [k |-> key, v |-> value].
DictKeys(d) == {d[i].k : i \in 1..Len(d)}
DictGet(d, key) == (CHOOSE i \in 1..Len(d) : d[i].k = key)
DictHas(d, key) == \E i \in 1..Len(d) : d[i].k = key
DictVal(d, key) == d[DictGet(d, key)].v
\* d[key] = value: an existing key keeps its position, a new key is appended.
DictSet(d, key, value) ==
    IF DictHas(d, key)
    THEN [i \in 1..Len(d) |-> IF d[i].k = key THEN [k |-> key, v |-> value] ELSE d[i]]
    ELSE Append(d, [k |-> key, v |-> value])

\* ------------------------------------------------------------ constants

\* OptimizationType
PARAMETER_TUNING == "parameter_tuning"
MODEL_UPDATE == "model_update"
CACHE_OPTIMIZATION == "cache_optimization"
API_OPTIMIZATION == "api_optimization"
RESOURCE_ALLOCATION == "resource_allocation"
OptimizationType ==
    {PARAMETER_TUNING, MODEL_UPDATE, CACHE_OPTIMIZATION, API_OPTIMIZATION,
     RESOURCE_ALLOCATION}

\* self.optimization_configs: module -> ordered (param, (min, max)).
Range(p, lo, hi) == [k |-> p, v |-> <<lo, hi>>]
optimization_configs ==
    [business_intelligence |->
        << Range("cache_timeout", Int2Rat(300), Int2Rat(7200)),
           Range("min_alert_priority", Int2Rat(2), Int2Rat(4)),
           Range("monitoring_interval", Int2Rat(60), Int2Rat(600)),
           Range("max_concurrent_requests", Int2Rat(5), Int2Rat(20)) >>,
     dialogue_manager |->
        << Range("context_timeout", Int2Rat(300), Int2Rat(900)),
           Range("max_conversation_turns", Int2Rat(5), Int2Rat(15)),
           Range("confidence_threshold", Rat(6, 10), Rat(9, 10)) >>,
     api_client |->
        << Range("request_timeout", Int2Rat(5), Int2Rat(30)),
           Range("retry_attempts", Int2Rat(2), Int2Rat(5)),
           Range("backoff_factor", Int2Rat(1), Int2Rat(4)) >> ]

RegisteredModules == DOMAIN optimization_configs
\* A module the Action Queue may name that has no entry in optimization_configs.
UnregisteredModule == "task_executor"
Modules == RegisteredModules \cup {UnregisteredModule}

TunableParams(m) == DictKeys(optimization_configs[m])

\* f"{module}_{param}"
ConfigKey(module, param) == module \o "_" \o param
\* The keys the planner reads or the applier writes: every registered
\* tunable, and cache_size of the modules that have a cache_timeout.
StoreKeys ==
    UNION {{ConfigKey(m, p) : p \in TunableParams(m)} : m \in RegisteredModules}
        \cup {ConfigKey(m, "cache_size") :
                 m \in {n \in RegisteredModules : "cache_timeout" \in TunableParams(n)}}

\* self.min_improvement_threshold = 0.05
min_improvement_threshold == Rat(5, 100)

\* param.endswith('timeout'), over the registered parameter names
EndsWithTimeout(param) ==
    param \in {"cache_timeout", "context_timeout", "request_timeout"}

\* ------------------------------------------------------------ planner

\* Adjustment looking at the first action of the batch only.
Adjustment_FirstActionOnly(actions) ==
    IF actions # <<>> /\ actions[1].priority >= 4
    THEN Rat(3, 10)
    ELSE Rat(1, 10)

\* The adjustment magnitude of parameter tuning (lines 250-254).
Adjustment(actions) ==
    IF \E i \in 1..Len(actions) : actions[i].priority >= 4
    THEN Rat(3, 10)
    ELSE Rat(1, 10)

\* TunedValue without the clamp to the safe range.
TunedValue_Unclamped(param, current_val, min_val, max_val, adjustment) ==
    IF EndsWithTimeout(param)
    THEN RMul(current_val, RSub(Int2Rat(1), adjustment))
    ELSE RMul(current_val, RAdd(Int2Rat(1), adjustment))

\* The new value of one tuned parameter (lines 256-267).
TunedValue(param, current_val, min_val, max_val, adjustment) ==
    IF EndsWithTimeout(param)
    THEN RMax(min_val, RMul(current_val, RSub(Int2Rat(1), adjustment)))
    ELSE RMin(max_val, RMul(current_val, RAdd(Int2Rat(1), adjustment)))

\* self.config.get(key, default)
ConfigGet(cfg, key, default) == IF cfg[key] = None THEN default ELSE cfg[key]

\* TuneLoop recording the new value, not the current one, for rollback.
RECURSIVE TuneLoop_RecordsNewValue(_, _, _, _)
TuneLoop_RecordsNewValue(cfg, module, actions, n) ==
    IF n = 0
    THEN [parameters |-> <<>>, rollback_data |-> <<>>]
    ELSE LET prev == TuneLoop_RecordsNewValue(cfg, module, actions, n - 1)
             e == optimization_configs[module][n]
             current_val == cfg[ConfigKey(module, e.k)]
             new_val == TunedValue(e.k, current_val, e.v[1], e.v[2], Adjustment(actions))
         IN  IF current_val = None
             THEN prev
             ELSE [parameters |-> DictSet(prev.parameters, e.k, new_val),
                   rollback_data |-> DictSet(prev.rollback_data, e.k, new_val)]

\* The parameter-tuning loop over config.items() (lines 241-269): the
\* proposal after the first n registered parameters.
RECURSIVE TuneLoop(_, _, _, _)
TuneLoop(cfg, module, actions, n) ==
    IF n = 0
    THEN [parameters |-> <<>>, rollback_data |-> <<>>]
    ELSE LET prev == TuneLoop(cfg, module, actions, n - 1)
             e == optimization_configs[module][n]
             current_val == cfg[ConfigKey(module, e.k)]
         IN  IF current_val = None
             THEN prev
             ELSE [parameters |->
                      DictSet(prev.parameters, e.k,
                              TunedValue(e.k, current_val, e.v[1], e.v[2],
                                         Adjustment(actions))),
                   rollback_data |->
                      DictSet(prev.rollback_data, e.k, current_val)]

\* The planner's return value None.
NoOptimization ==
    [type |-> "None", module |-> "None", parameters |-> <<>>, rollback_data |-> <<>>]

\* SelfImprovement._generate_optimization: the proposal, or None.  A KeyError
\* on config['cache_timeout'] or config['request_timeout'] is caught and
\* gives None.
GenerateOptimization(cfg, module, opt_type, actions) ==
    IF module \notin RegisteredModules
    THEN NoOptimization
    ELSE LET config == optimization_configs[module]
             base == [type |-> opt_type, module |-> module,
                      parameters |-> <<>>, rollback_data |-> <<>>]
         IN  CASE opt_type = PARAMETER_TUNING ->
                    LET t == TuneLoop(cfg, module, actions, Len(config))
                    IN  [base EXCEPT !.parameters = t.parameters,
                                     !.rollback_data = t.rollback_data]
               [] opt_type = CACHE_OPTIMIZATION ->
                    IF ~DictHas(config, "cache_timeout")
                    THEN NoOptimization
                    ELSE [base EXCEPT !.parameters =
                            << [k |-> "cache_timeout",
                                v |-> RMin(DictVal(config, "cache_timeout")[2],
                                           RMul(ConfigGet(cfg, ConfigKey(module, "cache_timeout"),
                                                          Int2Rat(3600)),
                                                Rat(8, 10)))],
                               [k |-> "cache_size",
                                v |-> RMul(ConfigGet(cfg, ConfigKey(module, "cache_size"),
                                                     Int2Rat(1000)),
                                           Rat(12, 10))] >>]
               [] opt_type = API_OPTIMIZATION ->
                    IF ~DictHas(config, "request_timeout")
                    THEN NoOptimization
                    ELSE [base EXCEPT !.parameters =
                            << [k |-> "request_timeout",
                                v |-> RMax(DictVal(config, "request_timeout")[1],
                                           RMul(ConfigGet(cfg, ConfigKey(module, "request_timeout"),
                                                          Int2Rat(10)),
                                                Rat(8, 10)))],
                               [k |-> "retry_attempts",
                                v |-> RMin(DictVal(config, "retry_attempts")[2],
                                           RAdd(ConfigGet(cfg, ConfigKey(module, "retry_attempts"),
                                                          Int2Rat(3)),
                                                Int2Rat(1)))] >>]
               [] OTHER -> base

\* ------------------------------------------------------------ applier

\* The write loop of _apply_optimization (lines 310-317) after its first n
\* iterations: the store and changes_made.
RECURSIVE ApplyLoop(_, _, _, _)
ApplyLoop(cfg, module, parameters, n) ==
    IF n = 0
    THEN [config |-> cfg, changes_made |-> <<>>]
    ELSE LET prev == ApplyLoop(cfg, module, parameters, n - 1)
             e == parameters[n]
             config_key == ConfigKey(module, e.k)
         IN  [config |-> [prev.config EXCEPT ![config_key] = e.v],
              changes_made |->
                 DictSet(prev.changes_made, e.k,
                         [old |-> prev.config[config_key], new |-> e.v])]

\* SelfImprovement._apply_optimization.  raises is the environment's part:
\* the number of the store write that raises, 0 when none does (a built-in
\* dict never does; a store that validates or is unavailable can).  The
\* writes before it stay, and the except branch (lines 336-345) returns a
\* result with success=False, changes_made={} and rollback_data=None.
ApplyOptimization(cfg, optimization, raises, timestamp) ==
    IF raises = 0
    THEN LET done == ApplyLoop(cfg, optimization.module, optimization.parameters,
                               Len(optimization.parameters))
         IN  [config |-> done.config,
              result |-> [optimization_type |-> optimization.type,
                          target_module |-> optimization.module,
                          changes_made |-> done.changes_made,
                          performance_impact |-> <<>>,
                          timestamp |-> timestamp,
                          success |-> TRUE,
                          rollback_data |-> optimization.rollback_data]]
    ELSE LET done == ApplyLoop(cfg, optimization.module, optimization.parameters,
                               raises - 1)
         IN  [config |-> done.config,
              result |-> [optimization_type |-> optimization.type,
                          target_module |-> optimization.module,
                          changes_made |-> <<>>,
                          performance_impact |-> <<>>,
                          timestamp |-> timestamp,
                          success |-> FALSE,
                          rollback_data |-> None]]

\* ------------------------------------------------------------ rollback

\* The restore loop of _rollback_optimization (lines 406-408).
RECURSIVE RestoreLoop(_, _, _, _)
RestoreLoop(cfg, module, rollback_data, n) ==
    IF n = 0
    THEN cfg
    ELSE [RestoreLoop(cfg, module, rollback_data, n - 1)
            EXCEPT ![ConfigKey(module, rollback_data[n].k)] = rollback_data[n].v]

\* SelfImprovement._rollback_optimization: the store afterwards.  A
\* rollback_data of None or {} returns at once (line 400).
RollbackOptimization(cfg, optimization) ==
    IF optimization.rollback_data = None \/ optimization.rollback_data = <<>>
    THEN cfg
    ELSE RestoreLoop(cfg, optimization.target_module, optimization.rollback_data,
                     Len(optimization.rollback_data))

\* ------------------------------------------------------------ impact

RECURSIVE SumValues(_, _)
SumValues(d, n) == IF n = 0 THEN Int2Rat(0) ELSE RAdd(SumValues(d, n - 1), d[n].v)

\* The impact loop of _monitor_optimization_impact (lines 362-369).
RECURSIVE ImpactLoop(_, _, _)
ImpactLoop(current_performance, baseline_performance, n) ==
    IF n = 0
    THEN <<>>
    ELSE LET prev == ImpactLoop(current_performance, baseline_performance, n - 1)
             metric == current_performance[n].k
             current_value == current_performance[n].v
         IN  IF DictHas(baseline_performance, metric)
             THEN LET baseline == DictVal(baseline_performance, metric)
                  IN  IF RLess(Int2Rat(0), baseline)
                      THEN DictSet(prev, metric,
                                   RDiv(RSub(current_value, baseline), baseline))
                      ELSE DictSet(prev, metric, Int2Rat(0))
             ELSE prev

Impact(current_performance, baseline_performance) ==
    ImpactLoop(current_performance, baseline_performance, Len(current_performance))

\* _should_rollback with "at or below the threshold" for "below".
ShouldRollback_AtOrBelow(impact) ==
    IF impact = <<>>
    THEN TRUE
    ELSE LET avg_impact == RDiv(SumValues(impact, Len(impact)), Int2Rat(Len(impact)))
         IN  RLess(avg_impact, Int2Rat(0)) \/ RLeq(avg_impact, min_improvement_threshold)

\* SelfImprovement._should_rollback
ShouldRollback(impact) ==
    IF impact = <<>>
    THEN TRUE
    ELSE LET avg_impact == RDiv(SumValues(impact, Len(impact)), Int2Rat(Len(impact)))
         IN  RLess(avg_impact, Int2Rat(0)) \/ RLess(avg_impact, min_improvement_threshold)

\* ------------------------------------------------------------ history

\* The seconds of a day: timedelta(days=1), and the modulus of
\* timedelta.seconds.
SecondsPerDay == 86400

\* sorted(history, key=timestamp, reverse=True): newest first, entries of
\* equal timestamp in their original order.
RECURSIVE InsertNewestFirst(_, _)
InsertNewestFirst(sorted, opt) ==
    IF sorted = <<>>
    THEN <<opt>>
    ELSE IF opt.timestamp > Head(sorted).timestamp
         THEN <<opt>> \o sorted
         ELSE <<Head(sorted)>> \o InsertNewestFirst(Tail(sorted), opt)

RECURSIVE NewestFirst(_, _)
NewestFirst(history, n) ==
    IF n = 0 THEN <<>> ELSE InsertNewestFirst(NewestFirst(history, n - 1), history[n])

\* get_optimization_history without the cutoff.
GetOptimizationHistory_NoCutoff(history, module, days, t) ==
    LET kept == SelectSeq(history,
                          LAMBDA opt : module = "None" \/ opt.target_module = module)
    IN  NewestFirst(kept, Len(kept))

\* SelfImprovement.get_optimization_history(module, days) called at time t;
\* module "None" is no filter.
GetOptimizationHistory(history, module, days, t) ==
    LET cutoff_time == t - days * SecondsPerDay
        kept == SelectSeq(history,
                          LAMBDA opt : /\ opt.timestamp >= cutoff_time
                                       /\ (module = "None" \/ opt.target_module = module))
    IN  NewestFirst(kept, Len(kept))

\* ------------------------------------------------------------ meta-agent

\* PerformanceMetric, in declaration order.
PerformanceMetric ==
    <<"api_latency", "research_accuracy", "alert_relevance",
      "conversation_quality", "partnership_match">>

\* MetaAgent._get_target_module: the fixed kind -> module table.
GetTargetModule(metric_type) ==
    CASE metric_type = "api_latency" -> "api_client"
      [] metric_type = "conversation_quality" -> "dialogue_manager"
      [] OTHER -> "business_intelligence"

\* MetaAgent.get_pending_improvements: the queue sorted by
\* (-priority, timestamp), a stable sort.
Before(a, b) ==
    \/ a.priority > b.priority
    \/ a.priority = b.priority /\ a.timestamp < b.timestamp

RECURSIVE InsertSorted(_, _)
InsertSorted(sorted, a) ==
    IF sorted = <<>>
    THEN <<a>>
    ELSE IF Before(a, Head(sorted))
         THEN <<a>> \o sorted
         ELSE <<Head(sorted)>> \o InsertSorted(Tail(sorted), a)

RECURSIVE SortedActions(_, _)
SortedActions(queue, n) ==
    IF n = 0 THEN <<>> ELSE InsertSorted(SortedActions(queue, n - 1), queue[n])

\* get_pending_improvements returning the queue in arrival order.
GetPendingImprovements_ArrivalOrder(queue) == queue

\* get_pending_improvements returning the most urgent action only.
GetPendingImprovements_FirstOnly(queue) ==
    IF queue = <<>> THEN <<>> ELSE <<SortedActions(queue, Len(queue))[1]>>

GetPendingImprovements(queue) == SortedActions(queue, Len(queue))

\* ------------------------------------------------------------ cycle helpers

\* metrics[-10:]
RecentWindow == 10

Recent(metrics) ==
    IF Len(metrics) <= RecentWindow
    THEN metrics
    ELSE SubSeq(metrics, Len(metrics) - RecentWindow + 1, Len(metrics))

RECURSIVE SumSnapshots(_, _)
SumSnapshots(metrics, n) ==
    IF n = 0 THEN Int2Rat(0) ELSE RAdd(SumSnapshots(metrics, n - 1), metrics[n].value)

\* np.mean over a non-empty list of snapshots
Mean(metrics) == RDiv(SumSnapshots(metrics, Len(metrics)), Int2Rat(Len(metrics)))

\* SelfImprovement._get_module_performance over the first n metric kinds.
RECURSIVE PerformanceLoop(_, _, _)
PerformanceLoop(history, module, n) ==
    IF n = 0
    THEN <<>>
    ELSE LET prev == PerformanceLoop(history, module, n - 1)
             metric_type == PerformanceMetric[n]
         IN  IF GetTargetModule(metric_type) = module /\ history[metric_type] # <<>>
             THEN DictSet(prev, metric_type, Mean(Recent(history[metric_type])))
             ELSE prev

GetModulePerformance(history, module) ==
    PerformanceLoop(history, module, Len(PerformanceMetric))

\* _determine_optimization_type testing update_decision_weights before
\* emergency_optimization.
DetermineOptimizationType_WeightsFirst(actions) ==
    LET idx == 1..Len(actions)
    IN  IF \E i \in idx : actions[i].action_type = "update_decision_weights"
        THEN MODEL_UPDATE
        ELSE IF \E i \in idx : actions[i].action_type = "emergency_optimization"
        THEN PARAMETER_TUNING
        ELSE IF \E i \in idx : actions[i].metric = "api_latency"
        THEN API_OPTIMIZATION
        ELSE IF Len(actions) >= 3
        THEN RESOURCE_ALLOCATION
        ELSE PARAMETER_TUNING

\* SelfImprovement._determine_optimization_type
DetermineOptimizationType(actions) ==
    LET idx == 1..Len(actions)
    IN  IF \E i \in idx : actions[i].action_type = "emergency_optimization"
        THEN PARAMETER_TUNING
        ELSE IF \E i \in idx : actions[i].action_type = "update_decision_weights"
        THEN MODEL_UPDATE
        ELSE IF \E i \in idx : actions[i].metric = "api_latency"
        THEN API_OPTIMIZATION
        ELSE IF Len(actions) >= 3
        THEN RESOURCE_ALLOCATION
        ELSE PARAMETER_TUNING

\* GroupByModule starting a new batch whenever the module changes from one
\* action to the next.
RECURSIVE GroupByModule_ConsecutiveRuns(_, _)
GroupByModule_ConsecutiveRuns(improvements, n) ==
    IF n = 0
    THEN <<>>
    ELSE LET prev == GroupByModule_ConsecutiveRuns(improvements, n - 1)
             action == improvements[n]
         IN  IF prev # <<>> /\ prev[Len(prev)].k = action.target_module
             THEN [prev EXCEPT ![Len(prev)].v = Append(@, action)]
             ELSE Append(prev, [k |-> action.target_module, v |-> <<action>>])

\* The grouping loop of _check_and_improve (lines 103-107): a dict
\* module -> actions, in order of first appearance.
RECURSIVE GroupByModule(_, _)
GroupByModule(improvements, n) ==
    IF n = 0
    THEN <<>>
    ELSE LET prev == GroupByModule(improvements, n - 1)
             action == improvements[n]
         IN  IF DictHas(prev, action.target_module)
             THEN DictSet(prev, action.target_module,
                          Append(DictVal(prev, action.target_module), action))
             ELSE DictSet(prev, action.target_module, <<action>>)

\* The subtraction the other way round: (self.last_improvement -
\* current_time).seconds.
TimedeltaSeconds_Reversed(later, earlier) == (earlier - later) % SecondsPerDay

\* (current_time - self.last_improvement).seconds: the seconds field of a
\* timedelta, which leaves the days out.
TimedeltaSeconds(later, earlier) == (later - earlier) % SecondsPerDay

\* self.improvement_interval
improvement_interval == 3600
\* asyncio.sleep(60) in start
TickSleep == 60
\* asyncio.sleep(300) in _monitor_optimization_impact
CooldownSleep == 300

\* ------------------------------------------------------------ bounds

\* Loop iterations of SelfImprovement.start in one behaviour.
MaxTicks == 2
\* Improvement actions enqueued in one behaviour.
MaxQueue == 2
\* Snapshots recorded in one behaviour, over all metric kinds, after those
\* the behaviour starts with.
MaxSnapshots == 2
\* Direct calls of the component methods in one behaviour of ApiSpec.
MaxCalls == 2
MaxPlans == 1
\* Actions in a batch handed to _determine_optimization_type directly.
MaxBatch == 3
\* Improvement actions handed to the queue directly in one behaviour.
MaxSubmit == 3
\* The latest creation time of an action handed to the queue directly.
MaxStamp == 2
\* Calls of MetaAgent.record_metrics in one behaviour.
MaxMetrics == 6
\* Calls of MetaAgent.record_decision in one behaviour.
MaxDecisions == 2
\* Results put into the Optimization History directly in one behaviour.
MaxHistory == 3
\* The latest store write of an apply that raises, on a store that can.
MaxFault == 2
\* Whole days that pass with the queue empty in one behaviour.
MaxDays == 1

\* ------------------------------------------------------------ state

VARIABLES
    config,                 \* SelfImprovement.config, the Configuration Store
    optimization_history,   \* SelfImprovement.optimization_history
    last_improvement,       \* SelfImprovement.last_improvement (seconds)
    now,                    \* datetime.now() (seconds)
    pending,                \* the meta-agent's Action Queue
    performance_history,    \* the meta-agent's per-kind snapshot history
    pc,                     \* where the start loop is: "sleeping" | "cooldown" | "cancelled"
    current_time,           \* _check_and_improve's current_time (0 outside a cycle)
    todo,                   \* the groups of module_improvements not yet processed
    attempt,                \* <<>> or <<the in-flight attempt>>
    ticks,                  \* loop iterations so far
    rolled_back,            \* the attempts _rollback_optimization was run on
    call,                   \* <<>> or <<the last direct method call>>
    enqueued,               \* improvement actions enqueued so far
    recorded,               \* snapshots recorded so far
    drained,                \* improvement actions returned by drains so far
    metrics_history,        \* MetaAgent.metrics_history
    agent_performance_history,  \* MetaAgent.performance_history
    decision_history,       \* MetaAgent.decision_history
    improvement_history,    \* MetaAgent.improvement_history
    writing,                \* <<>> or <<the write loop the event loop is running>>
    circuit_breakers,       \* ErrorHandler.circuit_breakers
    retry_strategies,       \* ErrorHandler.retry_strategies
    error_contexts,         \* ErrorHandler.error_contexts
    error_patterns,         \* ErrorHandler.error_patterns
    handling,               \* the handle_error calls made so far, each with its position
    calls                   \* direct method calls so far

vars ==
    <<config, optimization_history, last_improvement, now, pending,
      performance_history, pc, current_time, todo, attempt, ticks, rolled_back,
      call, enqueued, recorded, drained, calls,
      metrics_history, agent_performance_history, decision_history,
      improvement_history, writing,
      circuit_breakers, retry_strategies, error_contexts, error_patterns,
      handling>>

\* The ErrorHandler object and the handle_error coroutines on its event loop.
handler_vars ==
    <<circuit_breakers, retry_strategies, error_contexts, error_patterns,
      handling>>

\* The lists a MetaAgent object holds.
agent_vars ==
    <<metrics_history, agent_performance_history, decision_history,
      improvement_history>>

\* An attempt is known by when and where it was applied.
AttemptId(result) == <<result.timestamp, result.target_module>>

\* ------------------------------------------------------------ initial state

\* The store of the test fixtures (tests/meta_agent/test_self_improvement.py).
FixtureValue(key) ==
    CASE key = "business_intelligence_cache_timeout" -> Int2Rat(3600)
      [] key = "business_intelligence_min_alert_priority" -> Int2Rat(3)
      [] key = "business_intelligence_monitoring_interval" -> Int2Rat(300)
      [] key = "business_intelligence_max_concurrent_requests" -> Int2Rat(10)
      [] key = "dialogue_manager_context_timeout" -> Int2Rat(600)
      [] key = "dialogue_manager_max_conversation_turns" -> Int2Rat(10)
      [] key = "dialogue_manager_confidence_threshold" -> Rat(75, 100)
      [] key = "api_client_request_timeout" -> Int2Rat(10)
      [] key = "api_client_retry_attempts" -> Int2Rat(3)
      [] key = "api_client_backoff_factor" -> Int2Rat(2)
      [] OTHER -> None

\* The (min, max) range of a store key, None for a key that is no registered
\* tunable parameter.
SafeRange(key) ==
    IF \E m \in RegisteredModules : \E p \in TunableParams(m) : key = ConfigKey(m, p)
    THEN LET m == CHOOSE m \in RegisteredModules :
                     \E p \in TunableParams(m) : key = ConfigKey(m, p)
             p == CHOOSE p \in TunableParams(m) : key = ConfigKey(m, p)
         IN  DictVal(optimization_configs[m], p)
    ELSE None

\* A store with values at the ends of their ranges and with entries missing:
\* the cases in which the planner clamps, skips a parameter or falls back on
\* a default.
EdgeValue(key) ==
    CASE key = "business_intelligence_cache_timeout" -> Int2Rat(300)
      [] key = "business_intelligence_min_alert_priority" -> Int2Rat(4)
      [] key = "business_intelligence_monitoring_interval" -> Int2Rat(600)
      [] key = "dialogue_manager_context_timeout" -> Int2Rat(900)
      [] key = "dialogue_manager_confidence_threshold" -> Rat(6, 10)
      [] key = "api_client_request_timeout" -> Int2Rat(5)
      [] key = "api_client_backoff_factor" -> Int2Rat(4)
      [] OTHER -> None

\* The stores a behaviour starts from.  Every value lies in its range.
InitialStores ==
    { [k \in StoreKeys |-> FixtureValue(k)],
      [k \in StoreKeys |-> EdgeValue(k)] }

\* The snapshot histories a behaviour starts from: none recorded yet, or one
\* snapshot each of three kinds recorded before the loop started.
InitialHistories ==
    { [m \in {PerformanceMetric[i] : i \in 1..Len(PerformanceMetric)} |-> <<>>],
      [m \in {PerformanceMetric[i] : i \in 1..Len(PerformanceMetric)} |->
          CASE m = "api_latency" -> <<[value |-> Int2Rat(2), timestamp |-> 0]>>
            [] m = "research_accuracy" -> <<[value |-> Rat(6, 10), timestamp |-> 0]>>
            [] m = "alert_relevance" -> <<[value |-> Rat(1, 2), timestamp |-> 0]>>
            [] OTHER -> <<>>] }

Init ==
    /\ config \in InitialStores
    /\ optimization_history = <<>>
    /\ last_improvement = 0
    /\ now = 0
    /\ pending = <<>>
    /\ performance_history \in InitialHistories
    /\ pc = "sleeping"
    /\ current_time = 0
    /\ todo = <<>>
    /\ attempt = <<>>
    /\ ticks = 0
    /\ rolled_back = {}
    /\ call = <<>>
    /\ enqueued = 0
    /\ recorded = 0
    /\ drained = 0
    /\ calls = 0
    /\ metrics_history = <<>>
    /\ agent_performance_history = <<>>
    /\ decision_history = <<>>
    /\ improvement_history = <<>>
    /\ writing = <<>>
    /\ circuit_breakers = <<>>
    /\ retry_strategies = <<>>
    /\ error_contexts = <<>>
    /\ error_patterns = <<>>
    /\ handling = <<>>

\* ------------------------------------------------------------ environment

\* The improvement actions the Improvement Planner hands to the queue.
Action(action_type, target_module, metric, priority) ==
    [action_type |-> action_type, target_module |-> target_module,
     metric |-> metric, priority |-> priority]

ActionMenu ==
    { Action("emergency_optimization", "api_client", "api_latency", 5),
      Action("optimize_performance", "api_client", "api_latency", 3),
      Action("optimize_performance", "business_intelligence", "research_accuracy", 4),
      Action("update_decision_weights", "business_intelligence", "None", 3),
      Action("optimize_performance", UnregisteredModule, "research_accuracy", 3) }

\* The snapshots the modules record: a kind and a value.
SnapshotMenu ==
    { <<"api_latency", Int2Rat(4)>>, <<"research_accuracy", Rat(3, 10)>>,
      <<"alert_relevance", Int2Rat(1)>> }

\* An improvement action is appended to the Action Queue.
Enqueue ==
    /\ enqueued < MaxQueue
    /\ enqueued' = enqueued + 1
    /\ \E a \in ActionMenu :
          pending' = Append(pending,
                            [action_type |-> a.action_type,
                             target_module |-> a.target_module,
                             metric |-> a.metric,
                             priority |-> a.priority,
                             timestamp |-> now])
    /\ UNCHANGED <<config, optimization_history, last_improvement, now,
                   performance_history, pc, current_time, todo, attempt, ticks,
                   rolled_back, call, recorded, calls, drained>>
    /\ UNCHANGED agent_vars
    /\ UNCHANGED handler_vars
    /\ UNCHANGED writing

\* A module records a snapshot: it is appended to its kind's history with
\* the time of recording.
RecordMetric ==
    /\ recorded < MaxSnapshots
    /\ recorded' = recorded + 1
    /\ \E s \in SnapshotMenu :
          performance_history' =
             [performance_history EXCEPT ![s[1]] =
                 Append(@, [value |-> s[2], timestamp |-> now])]
    /\ UNCHANGED <<config, optimization_history, last_improvement, now, pending,
                   pc, current_time, todo, attempt, ticks, rolled_back, call,
                   enqueued, calls, drained>>
    /\ UNCHANGED agent_vars
    /\ UNCHANGED handler_vars
    /\ UNCHANGED writing

\* ------------------------------------------------------------ the cycle

\* The groups processed with every applied result monitored, whether or not
\* it succeeded.
RECURSIVE ProcessGroupsFrom_MonitorsFailed(_, _, _, _, _)
ProcessGroupsFrom_MonitorsFailed(cfg, history, groups, t, raises) ==
    IF groups = <<>>
    THEN [config |-> cfg, todo |-> <<>>, attempt |-> <<>>]
    ELSE LET module == Head(groups).k
             actions == Head(groups).v
             optimization == GenerateOptimization(cfg, module,
                                                  DetermineOptimizationType(actions),
                                                  actions)
         IN  IF optimization = NoOptimization
             THEN ProcessGroupsFrom_MonitorsFailed(cfg, history, Tail(groups), t, raises)
             ELSE LET out == ApplyOptimization(
                                cfg, optimization,
                                IF raises <= Len(optimization.parameters)
                                THEN raises ELSE 0,
                                t)
                  IN  [config |-> out.config,
                       todo |-> Tail(groups),
                       attempt |-> <<[module |-> module,
                                      result |-> out.result,
                                      baseline |-> GetModulePerformance(history, module)]>>]

\* ProcessGroupsFrom giving up the cycle at an apply that fails.
RECURSIVE ProcessGroupsFrom_AbortsOnFailure(_, _, _, _, _)
ProcessGroupsFrom_AbortsOnFailure(cfg, history, groups, t, raises) ==
    IF groups = <<>>
    THEN [config |-> cfg, todo |-> <<>>, attempt |-> <<>>]
    ELSE LET module == Head(groups).k
             actions == Head(groups).v
             current_performance == GetModulePerformance(history, module)
             opt_type == DetermineOptimizationType(actions)
             optimization == GenerateOptimization(cfg, module, opt_type, actions)
         IN  IF optimization = NoOptimization
             THEN ProcessGroupsFrom_AbortsOnFailure(cfg, history, Tail(groups), t, raises)
             ELSE LET out == ApplyOptimization(
                                cfg, optimization,
                                IF raises <= Len(optimization.parameters)
                                THEN raises ELSE 0,
                                t)
                  IN  IF out.result.success
                      THEN [config |-> out.config,
                            todo |-> Tail(groups),
                            attempt |-> <<[module |-> module,
                                           result |-> out.result,
                                           baseline |-> current_performance]>>]
                      ELSE [config |-> out.config, todo |-> <<>>, attempt |-> <<>>]

\* _process_module_improvements for the groups in turn (lines 110-111, 124-141),
\* up to the first apply that succeeds and so reaches the cooldown sleep: the
\* store, the groups left and the attempt in flight.  A group whose proposal
\* is None, or whose apply fails, is passed over.  raises is the number of
\* the store write that raises in the first apply made, 0 for none; a
\* proposal with fewer writes than that is applied whole.
RECURSIVE ProcessGroupsFrom(_, _, _, _, _)
ProcessGroupsFrom(cfg, history, groups, t, raises) ==
    IF groups = <<>>
    THEN [config |-> cfg, todo |-> <<>>, attempt |-> <<>>]
    ELSE LET module == Head(groups).k
             actions == Head(groups).v
             current_performance == GetModulePerformance(history, module)
             opt_type == DetermineOptimizationType(actions)
             optimization == GenerateOptimization(cfg, module, opt_type, actions)
         IN  IF optimization = NoOptimization
             THEN ProcessGroupsFrom(cfg, history, Tail(groups), t, raises)
             ELSE LET out == ApplyOptimization(
                                cfg, optimization,
                                IF raises <= Len(optimization.parameters)
                                THEN raises ELSE 0,
                                t)
                  IN  IF out.result.success
                      THEN [config |-> out.config,
                            todo |-> Tail(groups),
                            attempt |-> <<[module |-> module,
                                           result |-> out.result,
                                           baseline |-> current_performance]>>]
                      ELSE ProcessGroupsFrom(out.config, history, Tail(groups), t, 0)

\* The groups processed on a store none of whose writes raises.
ProcessGroups(cfg, history, groups, t) == ProcessGroupsFrom(cfg, history, groups, t, 0)

\* Resolve recording the result also when it rolls it back.
Resolve_RecordThenRollback(cfg, history, result, impact) ==
    [config |-> IF ShouldRollback(impact) THEN RollbackOptimization(cfg, result) ELSE cfg,
     optimization_history |-> Append(history, result),
     rolled_back |-> ShouldRollback(impact)]

\* Lines 151-156 of _process_module_improvements: roll back, or record.
Resolve(cfg, history, result, impact) ==
    IF ShouldRollback(impact)
    THEN [config |-> RollbackOptimization(cfg, result),
          optimization_history |-> history,
          rolled_back |-> TRUE]
    ELSE [config |-> cfg,
          optimization_history |-> Append(history, result),
          rolled_back |-> FALSE]

\* The loop iterations a Tick stands for: the last one runs
\* _check_and_improve, the ones before it found nothing to do.
TickCounts == {1, 60}

NothingToDo(t) ==
    \/ TimedeltaSeconds(t, last_improvement) < improvement_interval
    \/ pending = <<>>

\* SelfImprovement.start: sleep(60), then _check_and_improve, which returns
\* early, or drains the queue, groups it and processes the groups up to the
\* first cooldown sleep.  raises is the store write that raises, as in
\* ProcessGroupsFrom.
Cycle(raises) ==
    /\ pc = "sleeping"
    /\ ticks < MaxTicks
    /\ \E n \in TickCounts :
          LET t == now + n * TickSleep
          IN  /\ \/ pending = <<>>
                 \/ {j \in 1..(n - 1) : ~NothingToDo(now + j * TickSleep)} = {}
              /\ now' = t
              /\ ticks' = ticks + 1
              /\ IF TimedeltaSeconds(t, last_improvement) < improvement_interval
                 THEN UNCHANGED <<config, last_improvement, pending, pc,
                                  current_time, todo, attempt, drained>>
                 ELSE LET improvements == GetPendingImprovements(pending)
                      IN  /\ pending' = <<>>
                          /\ drained' = drained + Len(improvements)
                          /\ IF improvements = <<>>
                             THEN UNCHANGED <<config, last_improvement, pc,
                                              current_time, todo, attempt>>
                             ELSE LET run == ProcessGroupsFrom(
                                                config, performance_history,
                                                GroupByModule(improvements, Len(improvements)),
                                                t, raises)
                                  IN  /\ config' = run.config
                                      /\ todo' = run.todo
                                      /\ attempt' = run.attempt
                                      /\ IF run.attempt = <<>>
                                         THEN /\ pc' = "sleeping"
                                              /\ last_improvement' = t
                                              /\ current_time' = 0
                                         ELSE /\ pc' = "cooldown"
                                              /\ current_time' = t
                                              /\ UNCHANGED last_improvement
    /\ UNCHANGED <<optimization_history, performance_history, rolled_back,
                   call, enqueued, recorded, calls>>
    /\ UNCHANGED agent_vars
    /\ UNCHANGED handler_vars
    /\ UNCHANGED writing

\* A loop whose iterations are started by a timer: an iteration also starts
\* while the one before is in its cooldown, and drains the queue for itself.
Tick_OnTimer ==
    \/ Cycle(0)
    \/ /\ pc = "cooldown"
       /\ ticks < MaxTicks
       /\ pending # <<>>
       /\ ticks' = ticks + 1
       /\ pending' = <<>>
       /\ drained' = drained + Len(pending)
       /\ UNCHANGED <<config, optimization_history, last_improvement, now,
                      performance_history, pc, current_time, todo, attempt,
                      rolled_back, call, enqueued, recorded, calls>>
       /\ UNCHANGED agent_vars
       /\ UNCHANGED handler_vars
       /\ UNCHANGED writing

\* The loop iteration on a store none of whose writes raises.
Tick == Cycle(0)

\* The loop iteration on a store one of whose writes raises in the first
\* apply of the cycle.
FaultyTick == \E raises \in 1..MaxFault : Cycle(raises)

\* AfterCooldown measuring at once, without the cooldown sleep.
AfterCooldown_NoWait ==
    /\ pc = "cooldown"
    /\ LET a == attempt[1]
           t == now
           current_performance == GetModulePerformance(performance_history, a.module)
           impact == Impact(current_performance, a.baseline)
           result == [a.result EXCEPT !.performance_impact = impact]
           res == Resolve(config, optimization_history, result, impact)
           run == ProcessGroups(res.config, performance_history, todo, t)
       IN  /\ now' = t
           /\ optimization_history' = res.optimization_history
           /\ rolled_back' = IF res.rolled_back
                             THEN rolled_back \cup {AttemptId(result)}
                             ELSE rolled_back
           /\ config' = run.config
           /\ todo' = run.todo
           /\ attempt' = run.attempt
           /\ IF run.attempt = <<>>
              THEN /\ pc' = "sleeping"
                   /\ last_improvement' = current_time
                   /\ current_time' = 0
              ELSE /\ pc' = "cooldown"
                   /\ UNCHANGED <<last_improvement, current_time>>
    /\ UNCHANGED <<pending, performance_history, ticks, call, enqueued,
                   recorded, calls, drained>>
    /\ UNCHANGED agent_vars
    /\ UNCHANGED handler_vars
    /\ UNCHANGED writing

\* The cooldown sleep of _monitor_optimization_impact ends: the impact is
\* measured, the attempt is rolled back or recorded, and the groups left are
\* processed up to the next cooldown sleep or the end of the cycle.
AfterCooldown ==
    /\ pc = "cooldown"
    /\ LET a == attempt[1]
           t == now + CooldownSleep
           current_performance == GetModulePerformance(performance_history, a.module)
           impact == Impact(current_performance, a.baseline)
           result == [a.result EXCEPT !.performance_impact = impact]
           res == Resolve(config, optimization_history, result, impact)
           run == ProcessGroups(res.config, performance_history, todo, t)
       IN  /\ now' = t
           /\ optimization_history' = res.optimization_history
           /\ rolled_back' = IF res.rolled_back
                             THEN rolled_back \cup {AttemptId(result)}
                             ELSE rolled_back
           /\ config' = run.config
           /\ todo' = run.todo
           /\ attempt' = run.attempt
           /\ IF run.attempt = <<>>
              THEN /\ pc' = "sleeping"
                   /\ last_improvement' = current_time
                   /\ current_time' = 0
              ELSE /\ pc' = "cooldown"
                   /\ UNCHANGED <<last_improvement, current_time>>
    /\ UNCHANGED <<pending, performance_history, ticks, call, enqueued,
                   recorded, calls, drained>>
    /\ UNCHANGED agent_vars
    /\ UNCHANGED handler_vars
    /\ UNCHANGED writing

Next == Enqueue \/ RecordMetric \/ Tick \/ AfterCooldown

Spec == Init /\ [][Next]_vars

\* The cycle in a process that is not shut down: the cooldown sleep of
\* _monitor_optimization_impact (asyncio.sleep(300)) ends.  This is weak
\* fairness of AfterCooldown, with its enabling condition written out:
\* AfterCooldown has the one guard pc = "cooldown" and always advances now.
LiveSpec ==
    Spec /\ ([]<>(pc # "cooldown") \/ []<><<AfterCooldown>>_vars)

\* Cancel with the CancelledError caught by the except Exception of
\* _monitor_optimization_impact: the impact is {}, and the attempt is rolled
\* back.
Cancel_CaughtByMonitor ==
    /\ pc \in {"sleeping", "cooldown"}
    /\ pc' = "cancelled"
    /\ IF pc = "cooldown"
       THEN /\ config' = RollbackOptimization(config, attempt[1].result)
            /\ rolled_back' = rolled_back \cup {AttemptId(attempt[1].result)}
       ELSE UNCHANGED <<config, rolled_back>>
    /\ UNCHANGED <<optimization_history, last_improvement, now, pending,
                   performance_history, current_time, todo, attempt, ticks,
                   call, enqueued, recorded, drained, calls>>
    /\ UNCHANGED agent_vars
    /\ UNCHANGED handler_vars
    /\ UNCHANGED writing

\* The task that runs start is cancelled (process shutdown).  The
\* CancelledError is raised at the await the task is suspended in, the
\* sleep(60) of start or the sleep(300) of _monitor_optimization_impact.  It
\* is a BaseException (Python 3.8 and later, which setup.py requires), so
\* none of the `except Exception` clauses of _monitor_optimization_impact,
\* _process_module_improvements, _check_and_improve and start catches it, and
\* the task ends there.  attempt keeps the attempt that was abandoned.
Cancel ==
    /\ pc \in {"sleeping", "cooldown"}
    /\ pc' = "cancelled"
    /\ UNCHANGED <<config, optimization_history, last_improvement, now, pending,
                   performance_history, current_time, todo, attempt, ticks,
                   rolled_back, call, enqueued, recorded, drained, calls>>
    /\ UNCHANGED agent_vars
    /\ UNCHANGED handler_vars
    /\ UNCHANGED writing

\* The cycle in a process that can be shut down.
ShutdownNext == Enqueue \/ RecordMetric \/ Tick \/ AfterCooldown \/ Cancel

ShutdownSpec == Init /\ [][ShutdownNext]_vars

\* The cycle on a store whose writes can raise (a store that validates or is
\* unavailable, the apply errors of the except branch of _apply_optimization).
FaultyNext == Enqueue \/ RecordMetric \/ Tick \/ FaultyTick \/ AfterCooldown

FaultySpec == Init /\ [][FaultyNext]_vars

\* A day passes with the Action Queue empty: each of the 1440 loop iterations
\* of start returns from _check_and_improve at line 94 or at line 100 and
\* changes nothing.
IdleDay ==
    /\ pc = "sleeping"
    /\ pending = <<>>
    /\ now < MaxDays * SecondsPerDay
    /\ now' = now + SecondsPerDay
    /\ UNCHANGED <<config, optimization_history, last_improvement, pending,
                   performance_history, pc, current_time, todo, attempt, ticks,
                   rolled_back, call, enqueued, recorded, drained, calls>>
    /\ UNCHANGED agent_vars
    /\ UNCHANGED handler_vars
    /\ UNCHANGED writing

\* The cycle in a process that runs for more than a day.
LongRunNext == Enqueue \/ RecordMetric \/ Tick \/ AfterCooldown \/ IdleDay

LongRunSpec == Init /\ [][LongRunNext]_vars

\* ------------------------------------------------------------ direct calls

\* The component methods called one at a time on a SelfImprovement object,
\* as tests/meta_agent/test_self_improvement.py and test_integration.py do.
\* call holds the last call: what it was given and what it returned.

CallRecord(op, before, optimization, result, raises, impact, verdict) ==
    <<[op |-> op, before |-> before, optimization |-> optimization,
       result |-> result, raises |-> raises, impact |-> impact,
       verdict |-> verdict]>>

\* The result slot of a call that returns none.
NoResult ==
    [optimization_type |-> "None", target_module |-> "None", changes_made |-> <<>>,
     performance_impact |-> <<>>, timestamp |-> 0, success |-> FALSE,
     rollback_data |-> None]

\* A batch of one action of the given priority for a module.
OneAction(module, priority) ==
    <<[action_type |-> "optimize_performance", target_module |-> module,
       metric |-> "None", priority |-> priority, timestamp |-> 0]>>

\* Hand-written proposals, as the tests build them: rollback_data holds the
\* store's current values, the new values lie inside or outside the range.
Proposal(cfg, module, parameters) ==
    [type |-> PARAMETER_TUNING, module |-> module, parameters |-> parameters,
     rollback_data |->
        [i \in 1..Len(parameters) |->
            [k |-> parameters[i].k, v |-> cfg[ConfigKey(module, parameters[i].k)]]]]

ProposalMenu(cfg) ==
    { Proposal(cfg, "api_client",
               << [k |-> "request_timeout", v |-> t], [k |-> "retry_attempts", v |-> r] >>) :
         t \in {Int2Rat(5), Int2Rat(100)}, r \in {Int2Rat(4), Int2Rat(99)} }
    \cup
    { Proposal(cfg, "business_intelligence",
               << [k |-> "cache_timeout", v |-> Int2Rat(1800)],
                  [k |-> "min_alert_priority", v |-> Int2Rat(2)] >>),
      Proposal(cfg, "api_client", << [k |-> "request_timeout", v |-> Int2Rat(5)] >>) }

\* The deltas an impact map carries, and the impact maps over two metrics.
DeltaMenu ==
    { Rat(-1, 5), Rat(-1, 10), Rat(-1, 20), Int2Rat(0), Rat(1, 50), Rat(3, 100),
      Rat(1, 20), Rat(2, 25), Rat(1, 10), Rat(1, 2) }

ImpactMenu ==
    {<<>>}
    \cup { <<[k |-> "research_accuracy", v |-> a]>> : a \in DeltaMenu }
    \cup { <<[k |-> "research_accuracy", v |-> a], [k |-> "alert_relevance", v |-> b]>> :
              a \in DeltaMenu, b \in DeltaMenu }

\* _generate_optimization, then _apply_optimization on what it returned.
CallPlanAndApply ==
    /\ calls < MaxCalls
    /\ calls' = calls + 1
    /\ \E module \in Modules, opt_type \in OptimizationType, priority \in {3, 5} :
          LET optimization ==
                 GenerateOptimization(config, module, opt_type, OneAction(module, priority))
          IN  IF optimization = NoOptimization
              THEN /\ call' = CallRecord("plan", config, optimization, NoResult, 0, <<>>, FALSE)
                   /\ UNCHANGED config
              ELSE LET out == ApplyOptimization(config, optimization, 0, now)
                   IN  /\ config' = out.config
                       /\ call' = CallRecord("plan_apply", config, optimization,
                                             out.result, 0, <<>>, FALSE)
    /\ UNCHANGED <<optimization_history, last_improvement, now, pending,
                   performance_history, pc, current_time, todo, attempt, ticks,
                   rolled_back, enqueued, recorded, drained>>
    /\ UNCHANGED agent_vars
    /\ UNCHANGED handler_vars
    /\ UNCHANGED writing

\* _apply_optimization on a hand-written proposal; the store may reject one
\* of the writes.
CallApply ==
    /\ calls < MaxCalls
    /\ calls' = calls + 1
    /\ \E optimization \in ProposalMenu(config) :
          \E raises \in 0..Len(optimization.parameters) :
             LET out == ApplyOptimization(config, optimization, raises, now)
             IN  /\ config' = out.config
                 /\ call' = CallRecord("apply", config, optimization, out.result,
                                       raises, <<>>, FALSE)
    /\ UNCHANGED <<optimization_history, last_improvement, now, pending,
                   performance_history, pc, current_time, todo, attempt, ticks,
                   rolled_back, enqueued, recorded, drained>>
    /\ UNCHANGED agent_vars
    /\ UNCHANGED handler_vars
    /\ UNCHANGED writing

\* _rollback_optimization on the result the last apply returned.
CallRollback ==
    /\ calls < MaxCalls
    /\ calls' = calls + 1
    /\ call # <<>>
    /\ call[1].op \in {"plan_apply", "apply"}
    /\ call[1].result.success
    /\ config' = RollbackOptimization(config, call[1].result)
    /\ call' = CallRecord(IF call[1].op = "apply" THEN "apply_rollback"
                                                  ELSE "plan_apply_rollback",
                          call[1].before, call[1].optimization, call[1].result,
                          0, <<>>, FALSE)
    /\ UNCHANGED <<optimization_history, last_improvement, now, pending,
                   performance_history, pc, current_time, todo, attempt, ticks,
                   rolled_back, enqueued, recorded, drained>>
    /\ UNCHANGED agent_vars
    /\ UNCHANGED handler_vars
    /\ UNCHANGED writing

\* _should_rollback on an impact map.
CallShouldRollback ==
    /\ calls < MaxCalls
    /\ calls' = calls + 1
    /\ \E impact \in ImpactMenu :
          call' = CallRecord("should_rollback", config, NoOptimization, NoResult, 0,
                             impact, ShouldRollback(impact))
    /\ UNCHANGED <<config, optimization_history, last_improvement, now, pending,
                   performance_history, pc, current_time, todo, attempt, ticks,
                   rolled_back, enqueued, recorded, drained>>
    /\ UNCHANGED agent_vars
    /\ UNCHANGED handler_vars
    /\ UNCHANGED writing

\* The batches handed to _determine_optimization_type: every sequence of up
\* to MaxBatch actions of four sorts.
TypeMenu ==
    { Action("emergency_optimization", "api_client", "api_latency", 5),
      Action("optimize_performance", "api_client", "api_latency", 3),
      Action("optimize_performance", "business_intelligence", "research_accuracy", 3),
      Action("update_decision_weights", "business_intelligence", "None", 3) }

TypeBatches == UNION { [1..n -> TypeMenu] : n \in 0..MaxBatch }

\* _determine_optimization_type on a batch.
CallDetermineOptimizationType ==
    /\ calls < MaxCalls
    /\ calls' = calls + 1
    /\ \E actions \in TypeBatches :
          call' = <<[op |-> "determine_type", before |-> config, actions |-> actions,
                     opt_type |-> DetermineOptimizationType(actions)]>>
    /\ UNCHANGED <<config, optimization_history, last_improvement, now, pending,
                   performance_history, pc, current_time, todo, attempt, ticks,
                   rolled_back, enqueued, recorded, drained>>
    /\ UNCHANGED agent_vars
    /\ UNCHANGED handler_vars
    /\ UNCHANGED writing

ApiNext ==
    \/ CallPlanAndApply
    \/ CallApply
    \/ CallRollback
    \/ CallShouldRollback
    \/ CallDetermineOptimizationType

ApiSpec == Init /\ [][ApiNext]_vars

\* ------------------------------------------------------------ the queue

\* The Action Queue used on its own: producers hand it actions created at
\* any time, in any order, and a consumer drains it.
QueueInit ==
    /\ Init
    /\ config = [k \in StoreKeys |-> FixtureValue(k)]
    /\ \A i \in 1..Len(PerformanceMetric) : performance_history[PerformanceMetric[i]] = <<>>

\* An action created at some time is appended to the Action Queue.
Submit ==
    /\ enqueued < MaxSubmit
    /\ enqueued' = enqueued + 1
    /\ \E a \in ActionMenu, stamp \in 0..MaxStamp :
          LET action == [action_type |-> a.action_type,
                         target_module |-> a.target_module,
                         metric |-> a.metric,
                         priority |-> a.priority,
                         timestamp |-> stamp]
          IN  /\ pending' = Append(pending, action)
              /\ call' = <<[op |-> "enqueue", action |-> action]>>
    /\ UNCHANGED <<config, optimization_history, last_improvement, now,
                   performance_history, pc, current_time, todo, attempt, ticks,
                   rolled_back, recorded, calls, drained>>
    /\ UNCHANGED agent_vars
    /\ UNCHANGED handler_vars
    /\ UNCHANGED writing

\* get_pending_improvements returning the queue without clearing it.
CallGetPendingImprovements_KeepsQueue ==
    /\ call' = <<[op |-> "drain", queued |-> pending,
                  returned |-> GetPendingImprovements(pending)]>>
    /\ drained' = drained + Len(GetPendingImprovements(pending))
    /\ UNCHANGED <<config, optimization_history, last_improvement, now, pending,
                   performance_history, pc, current_time, todo, attempt, ticks,
                   rolled_back, enqueued, recorded, calls>>
    /\ UNCHANGED agent_vars
    /\ UNCHANGED handler_vars
    /\ UNCHANGED writing

\* get_pending_improvements: the queue is returned sorted and left empty.
CallGetPendingImprovements ==
    /\ call' = <<[op |-> "drain", queued |-> pending,
                  returned |-> GetPendingImprovements(pending)]>>
    /\ pending' = <<>>
    /\ drained' = drained + Len(GetPendingImprovements(pending))
    /\ UNCHANGED <<config, optimization_history, last_improvement, now,
                   performance_history, pc, current_time, todo, attempt, ticks,
                   rolled_back, enqueued, recorded, calls>>
    /\ UNCHANGED agent_vars
    /\ UNCHANGED handler_vars
    /\ UNCHANGED writing

QueueNext == Submit \/ CallGetPendingImprovements

QueueSpec == QueueInit /\ [][QueueNext]_vars

\* ------------------------------------------------------------ MetaAgent

\* The MetaAgent of src/src/meta_agent/meta_agent.py: record_metrics and
\* record_decision, with the evaluation and the improvement actions they
\* trigger.

\* MetricType, in declaration order.
MetricType ==
    <<"response_time", "latency", "cpu_usage", "memory_usage", "error_rate",
      "throughput", "accuracy", "success_rate", "user_satisfaction">>

\* self.config["improvement_threshold"]
improvement_threshold == Rat(7, 10)
\* self.evaluation_window
evaluation_window == 10
\* self.min_samples_for_evaluation
min_samples_for_evaluation == 5

\* SystemMetrics.get_metric_value
GetMetricValue(metrics, metric_type) == metrics[metric_type]

\* self.metrics_history[-self.evaluation_window:]
RecentMetrics(history) ==
    IF Len(history) <= evaluation_window
    THEN history
    ELSE SubSeq(history, Len(history) - evaluation_window + 1, Len(history))

\* sum(values)
RECURSIVE SumOf(_, _)
SumOf(values, n) ==
    IF n = 0 THEN Int2Rat(0) ELSE RAdd(SumOf(values, n - 1), values[n])

\* MetaAgent._calculate_metric_stats, on a non-empty history (the variance
\* is read nowhere).
CalculateMetricStats(history, metric_type) ==
    LET recent_metrics == RecentMetrics(history)
        values == [i \in 1..Len(recent_metrics) |->
                      GetMetricValue(recent_metrics[i], metric_type)]
    IN  [mean |-> RDiv(SumOf(values, Len(values)), Int2Rat(Len(values))),
         trend |-> IF Len(values) > 1
                   THEN RDiv(RSub(values[Len(values)], values[1]), Int2Rat(Len(values)))
                   ELSE Int2Rat(0)]

\* MetaAgent._trigger_improvement followed by record_improvement:
\* self.metrics_history[-1] raises IndexError on an empty history, and then
\* no action is created.  std is stats.get("std", 0).
TriggerImprovement(history, improvements, metric_type, mean, std, t) ==
    IF history = <<>>
    THEN [raised |-> TRUE, improvement_history |-> improvements]
    ELSE [raised |-> FALSE,
          improvement_history |->
             Append(improvements,
                    [action_id |-> <<"improve", metric_type, t>>,
                     metric_type |-> metric_type,
                     action_type |-> "optimization",
                     target_metric |-> metric_type,
                     parameters |->
                        [current_value |-> GetMetricValue(history[Len(history)], metric_type),
                         target_value |-> RAdd(mean, std),
                         threshold |-> improvement_threshold],
                     changes |-> <<>>,
                     timestamp |-> t])]

\* The loop of _evaluate_performance over the first n metric types.
RECURSIVE EvaluateLoop(_, _, _, _)
EvaluateLoop(history, improvements, n, t) ==
    IF n = 0
    THEN [raised |-> FALSE, improvement_history |-> improvements]
    ELSE LET prev == EvaluateLoop(history, improvements, n - 1, t)
             metric_type == MetricType[n]
             stats == CalculateMetricStats(history, metric_type)
         IN  IF prev.raised
             THEN prev
             ELSE IF /\ RLess(stats.trend, Int2Rat(0))
                     /\ RLess(improvement_threshold, stats.mean)
                  THEN TriggerImprovement(history, prev.improvement_history,
                                          metric_type, stats.mean, Int2Rat(0), t)
                  ELSE prev

\* MetaAgent._evaluate_performance
EvaluatePerformance(history, improvements, t) ==
    IF history = <<>> \/ Len(history) < min_samples_for_evaluation
    THEN [raised |-> FALSE, improvement_history |-> improvements]
    ELSE EvaluateLoop(history, improvements, Len(MetricType), t)

\* MetaAgent._analyze_decision_impact
AnalyzeDecisionImpact(history, improvements, outcome, t) ==
    IF RLess(outcome.impact, Int2Rat(0))
    THEN TriggerImprovement(history, improvements, "accuracy",
                            Rat(5, 10), Rat(1, 10), t)
    ELSE [raised |-> FALSE, improvement_history |-> improvements]

\* SystemMetrics(...)
SystemMetrics(response_time, accuracy, error_rate, success_rate, latency, cpu_usage, memory_usage, throughput, user_satisfaction) ==
    [response_time |-> response_time, accuracy |-> accuracy,
     error_rate |-> error_rate, success_rate |-> success_rate,
     latency |-> latency, cpu_usage |-> cpu_usage,
     memory_usage |-> memory_usage, throughput |-> throughput,
     user_satisfaction |-> user_satisfaction]

\* The snapshots recorded: the system_metrics and poor_system_metrics
\* fixtures of tests/meta_agent/test_meta_agent.py.
MetricsMenu ==
    { SystemMetrics(Rat(1, 10), Rat(95, 100), Rat(5, 100), Rat(95, 100), Rat(1, 10),
                    Int2Rat(30), Int2Rat(50), Int2Rat(100), Rat(8, 10)),
      SystemMetrics(Int2Rat(3), Rat(7, 10), Rat(4, 10), Rat(6, 10), Int2Rat(2),
                    Int2Rat(80), Int2Rat(90), Int2Rat(50), Rat(5, 10)) }

\* The decision outcomes recorded: the decision_outcome fixture, the
\* negative outcome of test_analyze_decision_impact, and one of no impact.
OutcomeMenu ==
    { [decision_id |-> "test_decision", action_type |-> "optimization",
       impact |-> Rat(8, 10), success |-> TRUE],
      [decision_id |-> "test_negative", action_type |-> "optimization",
       impact |-> Rat(-2, 10), success |-> FALSE],
      [decision_id |-> "test_neutral", action_type |-> "optimization",
       impact |-> Int2Rat(0), success |-> TRUE] }

\* MetaAgent.record_metrics.  There is no try/except: what the evaluation
\* raises reaches the caller.
RecordMetrics ==
    /\ Len(metrics_history) < MaxMetrics
    /\ \E metrics \in MetricsMenu :
          LET history == Append(metrics_history, metrics)
              out == EvaluatePerformance(history, improvement_history, now)
          IN  /\ metrics_history' = history
              /\ agent_performance_history' = Append(agent_performance_history, metrics)
              /\ improvement_history' = out.improvement_history
              /\ call' = <<[op |-> "record_metrics", metrics |-> metrics,
                            samples |-> Len(history),
                            before |-> improvement_history,
                            raised |-> out.raised]>>
    /\ UNCHANGED decision_history
    /\ UNCHANGED <<config, optimization_history, last_improvement, now, pending,
                   performance_history, pc, current_time, todo, attempt, ticks,
                   rolled_back, enqueued, recorded, drained, calls>>
    /\ UNCHANGED writing
    /\ UNCHANGED handler_vars

\* MetaAgent.record_decision.  There is no try/except: what
\* _trigger_improvement raises reaches the caller, after the append.
RecordDecision ==
    /\ Len(decision_history) < MaxDecisions
    /\ \E outcome \in OutcomeMenu :
          LET out == AnalyzeDecisionImpact(metrics_history, improvement_history,
                                           outcome, now)
          IN  /\ decision_history' = Append(decision_history, outcome)
              /\ improvement_history' = out.improvement_history
              /\ call' = <<[op |-> "record_decision", outcome |-> outcome,
                            samples |-> Len(metrics_history),
                            before |-> improvement_history,
                            raised |-> out.raised]>>
    /\ UNCHANGED <<metrics_history, agent_performance_history>>
    /\ UNCHANGED <<config, optimization_history, last_improvement, now, pending,
                   performance_history, pc, current_time, todo, attempt, ticks,
                   rolled_back, enqueued, recorded, drained, calls>>
    /\ UNCHANGED writing
    /\ UNCHANGED handler_vars

MetaNext == RecordMetrics \/ RecordDecision

MetaSpec == Init /\ [][MetaNext]_vars

\* ------------------------------------------------------------ the history

\* The Optimization History read on its own, as test_get_optimization_history
\* does: results of any age are put into optimization_history and
\* get_optimization_history is called with a module filter and a window.
HistoryInit ==
    /\ Init
    /\ config = [k \in StoreKeys |-> FixtureValue(k)]
    /\ \A i \in 1..Len(PerformanceMetric) : performance_history[PerformanceMetric[i]] = <<>>

\* The ages, in days, of the results put into the history.
AgeMenu == {0, 1, 2, 7, 8}
\* The days arguments of get_optimization_history.
DaysMenu == {1, 7}
\* The modules of the results; "None" is the call without a module.
HistoryModules == {"business_intelligence", "dialogue_manager"}

\* self_improvement.optimization_history.extend([OptimizationResult(...)])
ExtendHistory ==
    /\ Len(optimization_history) < MaxHistory
    /\ \E module \in HistoryModules, age \in AgeMenu :
          optimization_history' =
             Append(optimization_history,
                    [optimization_type |-> PARAMETER_TUNING,
                     target_module |-> module,
                     changes_made |-> <<>>,
                     performance_impact |-> <<>>,
                     timestamp |-> now - age * SecondsPerDay,
                     success |-> TRUE,
                     rollback_data |-> None])
    /\ call' = <<[op |-> "extend"]>>
    /\ UNCHANGED <<config, last_improvement, now, pending, performance_history,
                   pc, current_time, todo, attempt, ticks, rolled_back,
                   enqueued, recorded, drained, calls>>
    /\ UNCHANGED agent_vars
    /\ UNCHANGED handler_vars
    /\ UNCHANGED writing

\* get_optimization_history(module, days)
CallGetOptimizationHistory ==
    /\ \E module \in HistoryModules \cup {"None", "api_client"}, days \in DaysMenu :
          call' = <<[op |-> "history", module |-> module, days |-> days,
                     before |-> optimization_history,
                     returned |-> GetOptimizationHistory(optimization_history,
                                                         module, days, now)]>>
    /\ UNCHANGED <<config, optimization_history, last_improvement, now, pending,
                   performance_history, pc, current_time, todo, attempt, ticks,
                   rolled_back, enqueued, recorded, drained, calls>>
    /\ UNCHANGED agent_vars
    /\ UNCHANGED handler_vars
    /\ UNCHANGED writing

HistoryNext == ExtendHistory \/ CallGetOptimizationHistory

HistorySpec == HistoryInit /\ [][HistoryNext]_vars

\* ------------------------------------------------------------ the store

\* The writers and the readers of the Configuration Store on one event loop,
\* one store write at a time.  The write loops of _apply_optimization (lines
\* 310-317) and _rollback_optimization (lines 405-408) contain no await, so
\* the event loop runs no other coroutine from the first write of a loop to
\* its last: while writing holds a loop, the only step is its next write.

\* _apply_optimization enters its write loop with a proposal of the planner.
StartApply ==
    /\ writing = <<>>
    /\ calls < MaxCalls
    /\ calls' = calls + 1
    /\ \E module \in Modules, opt_type \in OptimizationType, priority \in {3, 5} :
          LET optimization ==
                 GenerateOptimization(config, module, opt_type, OneAction(module, priority))
          IN  /\ optimization # NoOptimization
              /\ optimization.parameters # <<>>
              /\ writing' = <<[op |-> "apply", type |-> optimization.type,
                               module |-> module,
                               writes |-> optimization.parameters, done |-> 0,
                               before |-> config,
                               rollback_data |-> optimization.rollback_data]>>
    /\ UNCHANGED <<config, optimization_history, last_improvement, now, pending,
                   performance_history, pc, current_time, todo, attempt, ticks,
                   rolled_back, call, enqueued, recorded, drained>>
    /\ UNCHANGED agent_vars
    /\ UNCHANGED handler_vars

\* _rollback_optimization enters its write loop with the result applied last.
StartRollback ==
    /\ writing = <<>>
    /\ attempt # <<>>
    /\ attempt[1].result.rollback_data # None
    /\ writing' = <<[op |-> "rollback", type |-> attempt[1].result.optimization_type,
                     module |-> attempt[1].result.target_module,
                     writes |-> attempt[1].result.rollback_data, done |-> 0,
                     before |-> config,
                     rollback_data |-> attempt[1].result.rollback_data]>>
    /\ attempt' = <<>>
    /\ rolled_back' = rolled_back \cup {AttemptId(attempt[1].result)}
    /\ UNCHANGED <<config, optimization_history, last_improvement, now, pending,
                   performance_history, pc, current_time, todo, ticks, call,
                   enqueued, recorded, drained, calls>>
    /\ UNCHANGED agent_vars
    /\ UNCHANGED handler_vars

\* self.config[config_key] = value (lines 313 and 408): the next write of the
\* loop; after the last one the loop is left, and an apply has its result.
WriteNext ==
    /\ writing # <<>>
    /\ LET w == writing[1]
           e == w.writes[w.done + 1]
           last == w.done + 1 = Len(w.writes)
       IN  /\ config' = [config EXCEPT ![ConfigKey(w.module, e.k)] = e.v]
           /\ writing' = IF last THEN <<>> ELSE <<[w EXCEPT !.done = w.done + 1]>>
           /\ IF last /\ w.op = "apply"
              THEN attempt' =
                      <<[module |-> w.module,
                         result |-> [optimization_type |-> w.type,
                                     target_module |-> w.module,
                                     changes_made |->
                                        ApplyLoop(w.before, w.module, w.writes,
                                                  Len(w.writes)).changes_made,
                                     performance_impact |-> <<>>,
                                     timestamp |-> now,
                                     success |-> TRUE,
                                     rollback_data |-> w.rollback_data],
                         baseline |-> <<>>]>>
              ELSE UNCHANGED attempt
    /\ UNCHANGED <<optimization_history, last_improvement, now, pending,
                   performance_history, pc, current_time, todo, ticks,
                   rolled_back, call, enqueued, recorded, drained, calls>>
    /\ UNCHANGED agent_vars
    /\ UNCHANGED handler_vars

\* A reader that runs whenever it likes, as a thread would, or as a
\* coroutine would if the write loops awaited.
ReadStore_Preempting ==
    /\ call' = <<[op |-> "read", seen |-> config, writing |-> writing]>>
    /\ UNCHANGED <<config, optimization_history, last_improvement, now, pending,
                   performance_history, pc, current_time, todo, attempt, ticks,
                   rolled_back, enqueued, recorded, drained, calls, writing>>
    /\ UNCHANGED agent_vars
    /\ UNCHANGED handler_vars

\* Another coroutine of the event loop reads the store (self.config.get):
\* it runs only when no write loop is running.
ReadStore ==
    /\ writing = <<>>
    /\ call' = <<[op |-> "read", seen |-> config, writing |-> writing]>>
    /\ UNCHANGED <<config, optimization_history, last_improvement, now, pending,
                   performance_history, pc, current_time, todo, attempt, ticks,
                   rolled_back, enqueued, recorded, drained, calls, writing>>
    /\ UNCHANGED agent_vars
    /\ UNCHANGED handler_vars

StoreNext == StartApply \/ StartRollback \/ WriteNext \/ ReadStore

StoreSpec == Init /\ [][StoreNext]_vars

\* ------------------------------------------------------------ the error handler

\* The ErrorHandler of src/src/utils/error_handler.py on one event loop.  now
\* counts whole seconds.  The Logger never raises (logger.py lines 148-170
\* catch everything); a handle_error coroutine can be suspended where it awaits
\* the logger and where it sleeps before a retry.  The locks are never held
\* across an await, so acquiring one never suspends.

MaxHandled == 3
MaxInFlight == 2
MaxClock == 1
Components == {"test_component"}
Operations == {"test_operation", "other_operation"}
ErrorTypes == {"ValueError"}
ThresholdMenu == {1, 2}
ResetTimeoutMenu == {1, 2}
MaxAttemptsMenu == {0, 3}
BaseDelayMenu == {Rat(1, 10), Rat(2, 1)}
RetryMaxDelay == Rat(1, 1)
exponential_base == 2

\* CircuitBreaker.__init__ (lines 77-83); last_failure_time is None or <<t>>.
CircuitBreaker(failure_threshold, reset_timeout) ==
    [failure_threshold |-> failure_threshold, reset_timeout |-> reset_timeout,
     failures |-> 0, last_failure_time |-> None, state |-> "CLOSED"]

\* A record_failure that keeps the time of the first failure.
RecordFailure_KeepsFirstFailureTime(breaker, t) ==
    LET failures == breaker.failures + 1
    IN  [breaker EXCEPT !.failures = failures,
                        !.last_failure_time =
                            IF breaker.last_failure_time = None
                            THEN <<t>> ELSE breaker.last_failure_time,
                        !.state = IF failures >= breaker.failure_threshold
                                  THEN "OPEN" ELSE breaker.state]

\* CircuitBreaker.record_failure (lines 85-92).
RecordFailure(breaker, t) ==
    LET failures == breaker.failures + 1
    IN  [breaker EXCEPT !.failures = failures,
                        !.last_failure_time = <<t>>,
                        !.state = IF failures >= breaker.failure_threshold
                                  THEN "OPEN" ELSE breaker.state]

\* CircuitBreaker.record_success (lines 94-98).
RecordSuccess(breaker) == [breaker EXCEPT !.failures = 0, !.state = "CLOSED"]

\* CircuitBreaker.can_execute (lines 100-112): the breaker it leaves and what
\* it returns.
CanExecute(breaker, t) ==
    IF breaker.state = "CLOSED"
    THEN [breaker |-> breaker, result |-> TRUE]
    ELSE IF breaker.state = "OPEN"
         THEN IF TimedeltaSeconds(t, breaker.last_failure_time[1]) >= breaker.reset_timeout
              THEN [breaker |-> [breaker EXCEPT !.state = "HALF-OPEN"], result |-> TRUE]
              ELSE [breaker |-> breaker, result |-> FALSE]
         ELSE [breaker |-> breaker, result |-> TRUE]

\* RetryStrategy.__init__ (lines 117-122).
RetryStrategy(max_attempts, base_delay, max_delay) ==
    [max_attempts |-> max_attempts, base_delay |-> base_delay,
     max_delay |-> max_delay, exponential_base |-> exponential_base]

RECURSIVE RPow(_, _)
RPow(b, n) == IF n = 0 THEN Int2Rat(1) ELSE RMul(b, RPow(b, n - 1))

\* RetryStrategy.get_delay (lines 124-130).
GetDelay(strategy, attempt_no) ==
    RMin(RMul(strategy.base_delay,
              RPow(Int2Rat(strategy.exponential_base), attempt_no - 1)),
         strategy.max_delay)

\* ErrorHandler.register_circuit_breaker (lines 158-165).
RegisterCircuitBreaker(breakers, component, failure_threshold, reset_timeout) ==
    DictSet(breakers, component, CircuitBreaker(failure_threshold, reset_timeout))

\* ErrorHandler.register_retry_strategy (lines 167-176).
RegisterRetryStrategy(strategies, component, max_attempts, base_delay, max_delay) ==
    DictSet(strategies, component, RetryStrategy(max_attempts, base_delay, max_delay))

\* The ErrorContext of lines 202-211.
ErrorContext(t, component, operation, error_type) ==
    [timestamp |-> t, component |-> component, operation |-> operation,
     error_type |-> error_type, retry_count |-> 0,
     recovery_attempted |-> FALSE, recovered |-> FALSE]

\* f"{component}:{operation}:{type(error).__name__}" (line 225): the three
\* parts, none of which holds a colon.
ErrorKey(context) == <<context.component, context.operation, context.error_type>>

\* self.error_patterns[error_key] += 1 on a defaultdict(int) (line 226).
CountPattern(patterns, error_key) ==
    DictSet(patterns, error_key,
            (IF DictHas(patterns, error_key) THEN DictVal(patterns, error_key) ELSE 0) + 1)

\* sum(1 for e in self.error_contexts if ...) (lines 322-323).
RECURSIVE CountAttempted(_, _)
CountAttempted(contexts, n) ==
    IF n = 0 THEN 0
    ELSE CountAttempted(contexts, n - 1) + (IF contexts[n].recovery_attempted THEN 1 ELSE 0)

RECURSIVE CountRecovered(_, _)
CountRecovered(contexts, n) ==
    IF n = 0 THEN 0
    ELSE CountRecovered(contexts, n - 1) + (IF contexts[n].recovered THEN 1 ELSE 0)

\* ErrorHandler.get_error_metrics (lines 307-325).
GetErrorMetrics(breakers, contexts, patterns) ==
    [total_errors |-> Len(contexts),
     error_patterns |-> patterns,
     circuit_breakers |->
        [i \in 1..Len(breakers) |->
            [k |-> breakers[i].k,
             v |-> [state |-> breakers[i].v.state, failures |-> breakers[i].v.failures]]],
     recovery_stats |-> [attempted |-> CountAttempted(contexts, Len(contexts)),
                         successful |-> CountRecovered(contexts, Len(contexts))]]

\* A fresh ErrorHandler beside the fixture store.
ErrorInit ==
    /\ Init
    /\ config = [k \in StoreKeys |-> FixtureValue(k)]
    /\ \A i \in 1..Len(PerformanceMetric) : performance_history[PerformanceMetric[i]] = <<>>

improvement_vars ==
    <<config, optimization_history, last_improvement, pending,
      performance_history, pc, current_time, todo, attempt, ticks, rolled_back,
      enqueued, recorded, drained, calls, writing>>

\* register_circuit_breaker is called for a component, before any error is
\* handled, as the tests do.
CallRegisterCircuitBreaker ==
    /\ handling = <<>>
    /\ \E component \in Components, failure_threshold \in ThresholdMenu,
          reset_timeout \in ResetTimeoutMenu :
          /\ ~DictHas(circuit_breakers, component)
          /\ circuit_breakers' =
                RegisterCircuitBreaker(circuit_breakers, component,
                                       failure_threshold, reset_timeout)
    /\ call' = <<>>
    /\ UNCHANGED <<retry_strategies, error_contexts, error_patterns, handling>>
    /\ UNCHANGED <<now, improvement_vars>>
    /\ UNCHANGED agent_vars

\* register_retry_strategy is called for a component, before any error is
\* handled.
CallRegisterRetryStrategy ==
    /\ handling = <<>>
    /\ \E component \in Components, max_attempts \in MaxAttemptsMenu,
          base_delay \in BaseDelayMenu :
          /\ ~DictHas(retry_strategies, component)
          /\ retry_strategies' =
                RegisterRetryStrategy(retry_strategies, component, max_attempts,
                                      base_delay, RetryMaxDelay)
    /\ call' = <<>>
    /\ UNCHANGED <<circuit_breakers, error_contexts, error_patterns, handling>>
    /\ UNCHANGED <<now, improvement_vars>>
    /\ UNCHANGED agent_vars

\* handle_error is called (lines 178-222): the context is built and the
\* coroutine awaits the logger.
CallHandleError ==
    /\ Len(handling) < MaxHandled
    /\ Cardinality({i \in 1..Len(handling) : handling[i].at # "done"}) < MaxInFlight
    /\ \E component \in Components, operation \in Operations,
          error_type \in ErrorTypes, retry \in BOOLEAN :
          handling' = Append(handling,
                             [context |-> ErrorContext(now, component, operation, error_type),
                              retry |-> retry, at |-> "log", handled_at |-> 0,
                              delay |-> Int2Rat(0), outcome |-> "", result |-> None])
    /\ call' = <<>>
    /\ UNCHANGED <<circuit_breakers, retry_strategies, error_contexts, error_patterns>>
    /\ UNCHANGED <<now, improvement_vars>>
    /\ UNCHANGED agent_vars

\* handle_error from the pattern count to its return or to the sleep of
\* _attempt_recovery (lines 224-249 and 259-286).
HandleError ==
    \E i \in 1..Len(handling) :
       /\ handling[i].at = "log"
       /\ LET task == handling[i]
              component == task.context.component
              has_breaker == DictHas(circuit_breakers, component)
              checked == CanExecute(RecordFailure(DictVal(circuit_breakers, component), now), now)
              blocked == has_breaker /\ ~checked.result
              recover == ~blocked /\ task.retry /\ DictHas(retry_strategies, component)
              retry_strategy == DictVal(retry_strategies, component)
              retried == [task.context EXCEPT !.retry_count = @ + 1]
              handled == [task EXCEPT !.handled_at = now]
          IN  /\ error_patterns' = CountPattern(error_patterns, ErrorKey(task.context))
              /\ circuit_breakers' =
                    IF has_breaker
                    THEN DictSet(circuit_breakers, component, checked.breaker)
                    ELSE circuit_breakers
              /\ IF blocked
                 THEN /\ handling' = [handling EXCEPT ![i] =
                                         [handled EXCEPT !.at = "done", !.outcome = "blocked"]]
                      /\ UNCHANGED error_contexts
                 ELSE IF recover
                 THEN /\ handling' = [handling EXCEPT ![i] =
                            IF retried.retry_count > retry_strategy.max_attempts
                            THEN [handled EXCEPT !.context = retried, !.at = "done",
                                                 !.outcome = "gave up"]
                            ELSE [handled EXCEPT !.context = retried, !.at = "sleep",
                                                 !.delay = GetDelay(retry_strategy,
                                                                    retried.retry_count)]]
                      /\ UNCHANGED error_contexts
                 ELSE /\ error_contexts' = Append(error_contexts, task.context)
                      /\ handling' = [handling EXCEPT ![i] =
                                         [handled EXCEPT !.at = "done", !.outcome = "stored"]]
       /\ call' = <<>>
       /\ UNCHANGED retry_strategies
       /\ UNCHANGED <<now, improvement_vars>>
       /\ UNCHANGED agent_vars

\* _attempt_recovery after its sleep (lines 286-297): the whole seconds of
\* the delay have passed; the context is marked and True is returned.
AttemptRecovery ==
    \E i \in 1..Len(handling) :
       /\ handling[i].at = "sleep"
       /\ now - handling[i].handled_at >= handling[i].delay[1] \div handling[i].delay[2]
       /\ LET task == handling[i]
              retry_strategy == DictVal(retry_strategies, task.context.component)
              attempted == [task.context EXCEPT !.recovery_attempted = TRUE]
          IN  handling' = [handling EXCEPT ![i] =
                 IF attempted.retry_count <= retry_strategy.max_attempts
                 THEN [task EXCEPT !.context = [attempted EXCEPT !.recovered = TRUE],
                                   !.at = "done", !.outcome = "recovered",
                                   !.result = <<TRUE>>]
                 ELSE [task EXCEPT !.context = attempted, !.at = "done",
                                   !.outcome = "gave up"]]
       /\ call' = <<>>
       /\ UNCHANGED <<circuit_breakers, retry_strategies, error_contexts, error_patterns>>
       /\ UNCHANGED <<now, improvement_vars>>
       /\ UNCHANGED agent_vars

\* record_success is called on a registered breaker that has recorded a
\* failure.
CallRecordSuccess ==
    /\ \E component \in DictKeys(circuit_breakers) :
          /\ DictVal(circuit_breakers, component).failures > 0
          /\ circuit_breakers' =
                DictSet(circuit_breakers, component,
                        RecordSuccess(DictVal(circuit_breakers, component)))
          /\ call' = <<[op |-> "record_success", component |-> component]>>
    /\ UNCHANGED <<retry_strategies, error_contexts, error_patterns, handling>>
    /\ UNCHANGED <<now, improvement_vars>>
    /\ UNCHANGED agent_vars

\* Time passes.
AdvanceClock ==
    /\ now < MaxClock
    /\ now' = now + 1
    /\ call' = <<>>
    /\ UNCHANGED handler_vars
    /\ UNCHANGED improvement_vars
    /\ UNCHANGED agent_vars

ErrorNext ==
    \/ CallRegisterCircuitBreaker
    \/ CallRegisterRetryStrategy
    \/ CallHandleError
    \/ HandleError
    \/ AttemptRecovery
    \/ CallRecordSuccess
    \/ AdvanceClock

ErrorSpec == ErrorInit /\ [][ErrorNext]_vars

\* ------------------------------------------------------------ properties

\* The store keys an apply wrote, with the value each held before it.
WrittenKeys(result) ==
    {ConfigKey(result.target_module, result.changes_made[i].k) :
        i \in 1..Len(result.changes_made)}

\* C1: when a proposal the planner produced has been applied and
\* _rollback_optimization has then been run on the returned result, every
\* store key the apply wrote holds its pre-apply value again.
C1_RollbackRestoresPlannedProposal ==
    (call # <<>> /\ call[1].op = "plan_apply_rollback")
        => \A key \in WrittenKeys(call[1].result) : config[key] = call[1].before[key]

\* C2: when _apply_optimization fails after at least one store write, the
\* store equals its pre-apply state when the call returns, and the result
\* has success=false.
C2_FailedApplyLeavesStoreUnchanged ==
    (call # <<>> /\ call[1].op = "apply" /\ call[1].raises >= 2)
        => (config = call[1].before /\ ~call[1].result.success)

\* Every registered tunable parameter of a store lies in its (min, max) range.
InRange(cfg) ==
    \A key \in StoreKeys :
        (SafeRange(key) # None /\ cfg[key] # None)
            => (RLeq(SafeRange(key)[1], cfg[key]) /\ RLeq(cfg[key], SafeRange(key)[2]))

\* C3: from a store whose registered tunables all lie in their ranges, every
\* registered tunable still lies in its range after any sequence of
\* self-improvement cycles.
C3_StoreStaysInRange == InRange(config)

\* C3 witness: cycles have kept one attempt and rolled back another, and the
\* store is no longer the one the behaviour started from.
C3_Witness ==
    /\ optimization_history # <<>>
    /\ rolled_back # {}
    /\ config \notin InitialStores

\* A proposal holds a value outside the range of its parameter.
OutOfRange(optimization) ==
    \E i \in 1..Len(optimization.parameters) :
        LET range == SafeRange(ConfigKey(optimization.module, optimization.parameters[i].k))
            value == optimization.parameters[i].v
        IN  range # None /\ (RLess(value, range[1]) \/ RLess(range[2], value))

\* C4: _apply_optimization on a proposal that holds an out-of-range value
\* (the store itself rejecting no write) returns success=false and leaves
\* the store unchanged.
C4_OutOfRangeProposalFailsCleanly ==
    (call # <<>> /\ call[1].op = "apply" /\ call[1].raises = 0
        /\ OutOfRange(call[1].optimization))
        => (~call[1].result.success /\ config = call[1].before)

\* C5: the result _apply_optimization returns for a planner-produced proposal
\* has rollback_data keys equal to the keys of changes_made.
C5_RollbackKeysAreChangedKeys ==
    (call # <<>> /\ call[1].op = "plan_apply")
        => DictKeys(call[1].result.rollback_data) = DictKeys(call[1].result.changes_made)

\* Some delta of an impact map is below -0.1.
HasRegression(impact) ==
    \E i \in 1..Len(impact) : RLess(impact[i].v, Rat(-1, 10))

\* C6: _should_rollback returns true for every impact map that holds a
\* delta below -0.1.
C6_RegressionForcesRollback ==
    (call # <<>> /\ call[1].op = "should_rollback" /\ HasRegression(call[1].impact))
        => call[1].verdict

\* The average of a non-empty impact map is below 0.05: sum < len / 20.
AverageBelowThreshold(impact) ==
    LET sum == SumValues(impact, Len(impact))
    IN  sum[1] * 20 < Len(impact) * sum[2]

\* C7: for a non-empty impact map with no delta below -0.1, _should_rollback
\* returns true exactly when the average delta is below 0.05.
C7_AverageDecidesRollback ==
    (call # <<>> /\ call[1].op = "should_rollback" /\ call[1].impact # <<>>
        /\ ~HasRegression(call[1].impact))
        => (call[1].verdict <=> AverageBelowThreshold(call[1].impact))

\* C7 witness: two deltas of 0.02 and 0.08, whose average is exactly the
\* threshold, are judged keep.
C7_Witness ==
    /\ call # <<>>
    /\ call[1].op = "should_rollback"
    /\ call[1].impact = <<[k |-> "research_accuracy", v |-> Rat(1, 50)],
                         [k |-> "alert_relevance", v |-> Rat(2, 25)]>>
    /\ ~call[1].verdict

\* The step on which the attempt in flight is resolved, and the impact the
\* monitor measures on it.
Resolving == pc = "cooldown" /\ attempt' # attempt

MeasuredPerformance == GetModulePerformance(performance_history, attempt[1].module)

MeasuredImpact == Impact(MeasuredPerformance, attempt[1].baseline)

HistoryIds(history) == {AttemptId(history[i]) : i \in 1..Len(history)}

\* C8: when no impact can be measured after a change, the attempt is rolled
\* back: every store key the apply overwrote holds its old value again, and
\* the result is not recorded.
C8_Step ==
    (Resolving /\ MeasuredImpact = <<>>)
        => /\ \A i \in 1..Len(attempt[1].result.changes_made) :
                 attempt[1].result.changes_made[i].v.old # None
                    => config'[ConfigKey(attempt[1].module,
                                         attempt[1].result.changes_made[i].k)]
                          = attempt[1].result.changes_made[i].v.old
           /\ optimization_history' = optimization_history

C8_UnmeasuredChangeIsReverted == [][C8_Step]_vars

\* C9: when api_latency, a lower-is-better metric, is higher after the change
\* than its baseline, its delta is negative and the attempt is rolled back.
C9_Step ==
    (Resolving
        /\ DictHas(MeasuredPerformance, "api_latency")
        /\ DictHas(attempt[1].baseline, "api_latency")
        /\ RLess(DictVal(attempt[1].baseline, "api_latency"),
                 DictVal(MeasuredPerformance, "api_latency")))
        => /\ RLess(DictVal(MeasuredImpact, "api_latency"), Int2Rat(0))
           /\ AttemptId(attempt[1].result) \in rolled_back'
           /\ optimization_history' = optimization_history

C9_WorseLatencyIsRolledBack == [][C9_Step]_vars

\* C10: every entry of optimization_history was applied successfully,
\* measured, judged keep by the rollback rule (no delta below -0.1 and the
\* average delta not below the threshold) and never rolled back; the attempt
\* in flight is not in the history.
C10_HistoryHoldsKeptResultsOnly ==
    /\ \A i \in 1..Len(optimization_history) :
          LET h == optimization_history[i]
          IN  /\ h.success
              /\ h.performance_impact # <<>>
              /\ ~HasRegression(h.performance_impact)
              /\ ~AverageBelowThreshold(h.performance_impact)
              /\ AttemptId(h) \notin rolled_back
    /\ attempt # <<>> => AttemptId(attempt[1].result) \notin HistoryIds(optimization_history)

\* C11: after _apply_optimization has returned success=True for a proposal,
\* get_optimization_history() returns an entry for it, with success=True and
\* the proposal's target_module (for k applies, one entry each).
C11_AppliedResultIsInHistory ==
    (call # <<>> /\ call[1].op \in {"plan_apply", "apply"} /\ call[1].result.success)
        => LET history == GetOptimizationHistory(optimization_history, "None", 7, now)
           IN  \E i \in 1..Len(history) :
                  /\ history[i].success
                  /\ history[i].target_module = call[1].result.target_module

\* The attempt in flight gets exactly one disposition on the step that
\* resolves it: Kept (in optimization_history) or RolledBack (in rolled_back,
\* every key of its rollback_data restored in the store).
C12_Step ==
    Resolving
        => LET result == attempt[1].result
               id == AttemptId(result)
               kept == id \in HistoryIds(optimization_history')
               undone == id \in rolled_back'
           IN  /\ kept # undone
               /\ undone => \A i \in 1..Len(result.rollback_data) :
                                config'[ConfigKey(result.target_module, result.rollback_data[i].k)]
                                   = result.rollback_data[i].v

\* C12: every attempt whose apply succeeded eventually reaches exactly one
\* disposition, Kept or RolledBack, when the process is not shut down: the
\* step that ends an attempt gives it exactly one disposition, and the loop
\* never stays in a cooldown for ever, also when no metric is ever recorded.
C12_AttemptIsEventuallyResolved ==
    /\ [][C12_Step]_vars
    /\ [][(pc = "cooldown" /\ attempt' = attempt) => UNCHANGED <<pc, todo>>]_vars
    /\ (pc = "cooldown") ~> (pc = "sleeping")

\* C12 witness: with no metric ever recorded, an attempt has been applied and
\* rolled back, and the cycle has ended.
C12_Witness ==
    /\ pc = "sleeping"
    /\ attempt = <<>>
    /\ rolled_back # {}
    /\ \A i \in 1..Len(PerformanceMetric) : performance_history[PerformanceMetric[i]] = <<>>

\* The attempts that have a disposition.
Disposed(history, undone) == HistoryIds(history) \cup undone

\* One step of the life of the attempts.
C13_Step ==
    LET flying == attempt # <<>>
        id == AttemptId(attempt[1].result)
        fresh == Disposed(optimization_history', rolled_back')
                    \ Disposed(optimization_history, rolled_back)
    IN  \* a disposition is final, and is given only to the attempt in flight
        /\ HistoryIds(optimization_history) \subseteq HistoryIds(optimization_history')
        /\ rolled_back \subseteq rolled_back'
        /\ HistoryIds(optimization_history') \cap rolled_back' = {}
        /\ fresh \subseteq (IF flying THEN {id} ELSE {})
        \* it is given after the apply and the cooldown, on the measured impact
        /\ fresh # {}
              => /\ attempt[1].result.success
                 /\ now' >= attempt[1].result.timestamp + CooldownSleep
                 /\ id \in rolled_back' <=> ShouldRollback(MeasuredImpact)
                 /\ id \notin rolled_back'
                       => optimization_history'[Len(optimization_history')].performance_impact
                             = MeasuredImpact
        \* an attempt in flight stays until it has its disposition
        /\ (flying /\ attempt' # attempt) => fresh = {id}
        \* what comes next is a new attempt, for another module of the batch
        /\ (attempt' # <<>> /\ attempt' # attempt)
              => /\ AttemptId(attempt'[1].result)
                       \notin Disposed(optimization_history', rolled_back')
                 /\ flying => attempt'[1].module # attempt[1].module

\* C13: an attempt only moves forward, Applied, then measured after the
\* cooldown, then Kept or RolledBack on the measured impact; once it is Kept
\* or RolledBack it is never applied, measured or rolled back again.
C13_AttemptOnlyMovesForward == [][C13_Step]_vars

\* C13 witness: the first attempt of a cycle has its disposition and the
\* second attempt of the same cycle is in flight.
C13_Witness ==
    /\ pc = "cooldown"
    /\ attempt # <<>>
    /\ \E d \in Disposed(optimization_history, rolled_back) :
          d[1] = current_time /\ d[2] # attempt[1].module

\* What a batch holds.
HasActionType(actions, action_type) ==
    \E i \in 1..Len(actions) : actions[i].action_type = action_type

TouchesMetric(actions, metric) ==
    \E i \in 1..Len(actions) : actions[i].metric = metric

\* C14: _determine_optimization_type applies its rules in strict precedence:
\* emergency_optimization gives parameter_tuning; else update_decision_weights
\* gives model_update; else the api_latency metric gives api_optimization;
\* else three or more actions give resource_allocation; else
\* parameter_tuning.
C14_TypeRulesInPrecedence ==
    (call # <<>> /\ call[1].op = "determine_type")
        => LET actions == call[1].actions
               emergency == HasActionType(actions, "emergency_optimization")
               weights == HasActionType(actions, "update_decision_weights")
               latency == TouchesMetric(actions, "api_latency")
               many == Len(actions) >= 3
               opt_type == call[1].opt_type
           IN  /\ emergency => opt_type = PARAMETER_TUNING
               /\ (~emergency /\ weights) => opt_type = MODEL_UPDATE
               /\ (~emergency /\ ~weights /\ latency) => opt_type = API_OPTIMIZATION
               /\ (~emergency /\ ~weights /\ ~latency /\ many)
                     => opt_type = RESOURCE_ALLOCATION
               /\ (~emergency /\ ~weights /\ ~latency /\ ~many)
                     => opt_type = PARAMETER_TUNING

\* C14 witness: a batch of three in which every rule has a match, the
\* emergency action last, is given parameter_tuning.
C14_Witness ==
    /\ call # <<>>
    /\ call[1].op = "determine_type"
    /\ Len(call[1].actions) = 3
    /\ call[1].actions[1].action_type = "update_decision_weights"
    /\ call[1].actions[2].metric = "api_latency"
    /\ call[1].actions[3].action_type = "emergency_optimization"
    /\ call[1].opt_type = PARAMETER_TUNING

\* How many times x occurs in the sequence s.
Occurrences(s, x) == Cardinality({i \in 1..Len(s) : s[i] = x})

\* The two sequences hold the same elements the same number of times.
SameMultiset(s, t) ==
    /\ Len(s) = Len(t)
    /\ \A i \in 1..Len(s) : Occurrences(s, s[i]) = Occurrences(t, s[i])

\* C15: whatever actions were enqueued, in whatever order,
\* get_pending_improvements returns all of them, sorted by priority
\* descending with ties broken by timestamp ascending, so that a priority-5
\* emergency action precedes every action of lower priority.
C15_DrainReturnsAllSorted ==
    (call # <<>> /\ call[1].op = "drain") =>
        LET queued == call[1].queued
            returned == call[1].returned
        IN  /\ SameMultiset(queued, returned)
            /\ \A i, j \in 1..Len(returned) :
                  i < j =>
                     /\ returned[i].priority >= returned[j].priority
                     /\ returned[i].priority = returned[j].priority
                           => returned[i].timestamp <= returned[j].timestamp
            /\ \A i, j \in 1..Len(returned) :
                  (returned[i].priority = 5 /\ returned[j].priority < 5) => i < j

\* A drain of three actions that arrived with an emergency action behind a
\* lower-priority one and with an equal-priority pair newest first.
C15_Witness ==
    /\ call # <<>>
    /\ call[1].op = "drain"
    /\ Len(call[1].queued) = 3
    /\ call[1].queued[1].priority = 3
    /\ call[1].queued[2].priority = 5
    /\ call[1].queued[3].priority = 3
    /\ call[1].queued[1].timestamp > call[1].queued[3].timestamp
    /\ call[1].returned[1].priority = 5

\* A step that is a call of get_pending_improvements returns every queued
\* action and leaves the queue empty; when the step before it was such a
\* call too, it returns the empty list.  A step that enqueues appends one
\* action and delivers none.
C16_Step ==
    /\ (call' # <<>> /\ call'[1].op = "drain") =>
          /\ call'[1].queued = pending
          /\ SameMultiset(call'[1].returned, pending)
          /\ pending' = <<>>
          /\ drained' = drained + Len(pending)
          /\ (call # <<>> /\ call[1].op = "drain") => call'[1].returned = <<>>
    /\ (call' # <<>> /\ call'[1].op = "enqueue") =>
          /\ pending' = Append(pending, call'[1].action)
          /\ drained' = drained

\* C16: get_pending_improvements called twice in a row, with no enqueue in
\* between, returns every queued action the first time and an empty list the
\* second time; every action enqueued is delivered by exactly one drain, so
\* the actions enqueued are those delivered plus those still queued.
C16_SecondDrainIsEmpty ==
    /\ [][C16_Step]_vars
    /\ [](enqueued = drained + Len(pending))

\* The second of two drains in a row, the first of which delivered actions.
C16_Witness ==
    /\ call # <<>>
    /\ call[1].op = "drain"
    /\ call[1].queued = <<>>
    /\ call[1].returned = <<>>
    /\ enqueued >= 2
    /\ drained = enqueued

\* The queue changes in two ways only: a producer appends one action, which
\* no drain has delivered, or the cycle, between two sleeps of the loop,
\* drains it whole.  While a drained batch is being processed nothing is
\* delivered, and what producers append stays queued.
C17_Step ==
    /\ pending' # pending =>
          \/ /\ Len(pending') = Len(pending) + 1
             /\ pending' = Append(pending, pending'[Len(pending')])
             /\ enqueued' = enqueued + 1
             /\ drained' = drained
          \/ /\ pc = "sleeping"
             /\ pending' = <<>>
             /\ enqueued' = enqueued
             /\ drained' = drained + Len(pending)
    /\ pending' = pending => (drained' = drained /\ enqueued' = enqueued)
    /\ pc = "cooldown" =>
          /\ drained' = drained
          /\ SubSeq(pending', 1, Len(pending)) = pending

\* C17: the drain of the Action Queue is atomic for concurrent producers: an
\* action enqueued while a drained batch is being processed is neither lost
\* nor duplicated, it stays queued and the next drain returns it; the
\* actions enqueued are always those delivered plus those still queued.
C17_DrainIsAtomic ==
    /\ [][C17_Step]_vars
    /\ [](enqueued = drained + Len(pending))

\* An action enqueued while the batch of an earlier drain is in its cooldown.
C17_Witness ==
    /\ pc = "cooldown"
    /\ drained = 1
    /\ Len(pending) = 1
    /\ pending[1].timestamp = now
    /\ now > 0

\* A snapshot at least 50% worse than the threshold in the bad direction:
\* a response time, latency or error rate, where lower is better, of 1.5
\* times improvement_threshold or more.
AcutelyDegraded(metrics) ==
    \E kind \in {"response_time", "latency", "error_rate"} :
        RLeq(RMul(Rat(3, 2), improvement_threshold), metrics[kind])

\* A priority-5 emergency_optimization action that names a module.
IsEmergencyAction(action) ==
    /\ action.action_type = "emergency_optimization"
    /\ "priority" \in DOMAIN action
    /\ action.priority = 5
    /\ "target_module" \in DOMAIN action

\* The actions a call created: those its improvement history ends with.
CreatedBy(c) ==
    SubSeq(improvement_history, Len(c.before) + 1, Len(improvement_history))

\* C18: when record_metrics has returned, it has created exactly one
\* priority-5 emergency_optimization action naming a module if the snapshot
\* was at least 50% worse than the threshold, whatever the number of samples
\* recorded before, and no emergency action if it was not.
C18_AcuteSnapshotEnqueuesEmergency ==
    (call # <<>> /\ call[1].op = "record_metrics") =>
        LET created == CreatedBy(call[1])
            emergencies == {i \in 1..Len(created) : IsEmergencyAction(created[i])}
        IN  IF AcutelyDegraded(call[1].metrics)
            THEN Cardinality(emergencies) = 1
            ELSE emergencies = {}

\* C19: every ImprovementAction created has a priority in 1..5, and an
\* action of priority 5 is created only by the emergency path of metric
\* recording, that is by record_metrics on an acutely degraded snapshot,
\* never by the trend analysis of other snapshots or by record_decision.
C19_PriorityInRangeAndFiveIsEmergency ==
    /\ \A i \in 1..Len(improvement_history) :
          /\ "priority" \in DOMAIN improvement_history[i]
          /\ improvement_history[i].priority \in 1..5
    /\ call # <<>> =>
          \A i \in 1..Len(CreatedBy(call[1])) :
             CreatedBy(call[1])[i].priority = 5 =>
                /\ call[1].op = "record_metrics"
                /\ AcutelyDegraded(call[1].metrics)

\* C20: record_metrics and record_decision never raise to the caller,
\* whatever the input and the state before, the record_decision of a
\* negative-impact outcome with no metrics recorded yet included.
C20_IngestionNeverRaises ==
    (call # <<>> /\ call[1].op \in {"record_metrics", "record_decision"}) =>
        ~call[1].raised

\* The history entry is one get_optimization_history(module, days) called
\* at time t must return.
InWindow(opt, module, days, t) ==
    /\ opt.timestamp >= t - days * SecondsPerDay
    /\ opt.timestamp <= t
    /\ (module = "None" \/ opt.target_module = module)

\* C21: get_optimization_history(module, days) returns exactly the history
\* entries whose timestamp lies within the last days days and, when a module
\* is given, whose target_module is that module, ordered by timestamp
\* descending, and it leaves the history as it was.
C21_HistoryQueryFiltersAndSorts ==
    (call # <<>> /\ call[1].op = "history") =>
        LET c == call[1]
        IN  /\ \A i \in 1..Len(c.returned) :
                  /\ InWindow(c.returned[i], c.module, c.days, now)
                  /\ Occurrences(c.returned, c.returned[i])
                        = Occurrences(c.before, c.returned[i])
            /\ \A i \in 1..Len(c.before) :
                  InWindow(c.before[i], c.module, c.days, now)
                     => \E j \in 1..Len(c.returned) : c.returned[j] = c.before[i]
            /\ \A i, j \in 1..Len(c.returned) :
                  i < j => c.returned[i].timestamp >= c.returned[j].timestamp
            /\ optimization_history = c.before

\* A query by module over a history put in oldest first, which holds an
\* entry too old, an entry of another module and two entries to return.
C21_Witness ==
    /\ call # <<>>
    /\ call[1].op = "history"
    /\ call[1].module = "business_intelligence"
    /\ Len(call[1].before) = 3
    /\ Len(call[1].returned) = 2
    /\ call[1].returned[1].timestamp > call[1].returned[2].timestamp
    /\ call[1].before[1] = call[1].returned[2]
    /\ \E i \in 1..3 : call[1].before[i].timestamp < now - call[1].days * SecondsPerDay

\* C22: a proposal in which the planner changes nothing (a module without
\* registered tunables or safe ranges, or an optimization type for which no
\* parameters are computed) is a no-op: no cooldown and no impact
\* measurement is run for it, so it is never the attempt in flight, and
\* nothing is appended to the Optimization History for it.
C22_EmptyProposalIsNoOp ==
    /\ attempt # <<>> => attempt[1].result.changes_made # <<>>
    /\ \A i \in 1..Len(optimization_history) :
          optimization_history[i].changes_made # <<>>

\* C23: an apply that ends with success=false is not monitored, so its
\* result is never the attempt in flight; it is not rolled back, and its
\* result is never appended to the Optimization History.
C23_FailedApplyIsDropped ==
    /\ [](attempt # <<>> => attempt[1].result.success)
    /\ [](\A i \in 1..Len(optimization_history) : optimization_history[i].success)
    /\ [][rolled_back' # rolled_back =>
             /\ attempt # <<>>
             /\ attempt[1].result.success
             /\ rolled_back' = rolled_back \cup {AttemptId(attempt[1].result)}]_vars

\* A cycle has drained the queue and its apply failed after the first store
\* write: the store has changed, and yet no attempt is in flight, none was
\* rolled back and the history is empty.
C23_Witness ==
    /\ drained >= 1
    /\ pc = "sleeping"
    /\ attempt = <<>>
    /\ optimization_history = <<>>
    /\ rolled_back = {}
    /\ config \notin InitialStores

\* C24: when the cooldown wait of the attempt in flight is cancelled, the
\* attempt is committed neither as kept nor as rolled back: its result is
\* never appended to the Optimization History and no rollback write is made
\* for it, so that from then on the store, the history and the attempts
\* rolled back stay as they are.
C24_CancelledAttemptIsAbandoned ==
    /\ []((pc = "cancelled" /\ attempt # <<>>) =>
            /\ AttemptId(attempt[1].result) \notin rolled_back
            /\ \A i \in 1..Len(optimization_history) :
                  AttemptId(optimization_history[i]) # AttemptId(attempt[1].result))
    /\ [][(pc = "cooldown" /\ pc' = "cancelled") =>
             UNCHANGED <<config, optimization_history, rolled_back>>]_vars
    /\ [][pc = "cancelled" =>
             UNCHANGED <<pc, attempt, config, optimization_history, rolled_back>>]_vars

\* The task was cancelled in the cooldown of an attempt that changed the
\* store, and observations went on arriving afterwards.
C24_Witness ==
    /\ pc = "cancelled"
    /\ attempt # <<>>
    /\ attempt[1].result.changes_made # <<>>
    /\ \E i \in 1..Len(pending) : pending[i].timestamp = now
    /\ now > 0

\* While a cycle runs, that is from its drain to the end of its last
\* cooldown, no loop iteration starts and the queue is not drained; the
\* attempt in flight gives way to another only when it has been kept or
\* rolled back.
C25_Step ==
    /\ pc = "cooldown" =>
          /\ ticks' = ticks
          /\ drained' = drained
          /\ \A i \in 1..Len(pending) : i <= Len(pending') /\ pending'[i] = pending[i]
    /\ (attempt # <<>> /\ attempt' # attempt) =>
          AttemptId(attempt[1].result) \in Disposed(optimization_history', rolled_back')

\* C25: at most one self-improvement cycle executes at any time: while a
\* cycle is in a cooldown wait no second cycle starts, though a tick is due
\* and actions are queued, and at most one attempt is between Applied and
\* its terminal state.
C25_OneCycleAtATime ==
    /\ [][C25_Step]_vars
    /\ [](pc = "cooldown" <=> attempt # <<>>)
    /\ [](Len(attempt) <= 1)

\* A cycle is in its cooldown, a loop iteration is left, actions are queued
\* and the improvement interval has elapsed since last_improvement: a timer
\* would start a second cycle here.
C25_Witness ==
    /\ pc = "cooldown"
    /\ ticks < MaxTicks
    /\ pending # <<>>
    /\ TimedeltaSeconds(now, last_improvement) >= improvement_interval

\* One step of the store: while a write loop runs, the step is the next
\* write of that loop and nothing else, and a loop is entered only when none
\* is running.
C26_Step ==
    /\ writing # <<>> =>
          LET w == writing[1]
              e == w.writes[w.done + 1]
          IN  /\ config' = [config EXCEPT ![ConfigKey(w.module, e.k)] = e.v]
              /\ call' = call
              /\ writing' = IF w.done + 1 = Len(w.writes)
                            THEN <<>>
                            ELSE <<[w EXCEPT !.done = w.done + 1]>>
    /\ writing = <<>> => config' = config

C27_Step ==
    \A c \in DictKeys(circuit_breakers) :
       LET before == DictVal(circuit_breakers, c)
           after == DictVal(circuit_breakers', c)
           handled == \E i \in 1..Len(handling) :
                         /\ handling[i].at = "log"
                         /\ handling'[i].at # "log"
                         /\ handling[i].context.component = c
           succeeded == /\ call' # <<>>
                        /\ call'[1].op = "record_success"
                        /\ call'[1].component = c
       IN  /\ handled =>
                /\ after.failures = before.failures + 1
                /\ before.state = "OPEN" => after.state = "OPEN"
           /\ succeeded => (after.state = "CLOSED" /\ after.failures = 0)
           /\ (~handled /\ ~succeeded) => after = before

AllHandled == handling # <<>> /\ \A i \in 1..Len(handling) : handling[i].at = "done"

\* The handle_error calls made with an error key.
CallsWithKey(error_key) ==
    Cardinality({i \in 1..Len(handling) : ErrorKey(handling[i].context) = error_key})

\* C28: every handle_error call increases total_errors by exactly one and
\* the pattern count of its component, operation and error type by exactly
\* one, also when several calls run concurrently: after n calls,
\* total_errors = n and the pattern count = n.
C28_EveryCallIsCounted ==
    AllHandled =>
       LET metrics == GetErrorMetrics(circuit_breakers, error_contexts, error_patterns)
       IN  /\ metrics.total_errors = Len(handling)
           /\ \A i \in 1..Len(handling) :
                 LET error_key == ErrorKey(handling[i].context)
                 IN  /\ DictHas(metrics.error_patterns, error_key)
                     /\ DictVal(metrics.error_patterns, error_key) = CallsWithKey(error_key)

\* recovery_stats of get_error_metrics.
RecoveryStats(contexts) ==
    GetErrorMetrics(circuit_breakers, contexts, error_patterns).recovery_stats

\* C29: when handle_error is called with retry=True for a component that
\* has a registered retry strategy, the handled error is counted in
\* get_error_metrics: recovery_stats.attempted and recovery_stats.successful
\* each increase by one.
C29_RecoveryIsCounted ==
    [][\A i \in 1..Len(handling) :
          (/\ handling[i].at # "done"
           /\ handling'[i].at = "done"
           /\ handling[i].retry
           /\ DictHas(retry_strategies, handling[i].context.component))
          => /\ RecoveryStats(error_contexts').attempted =
                   RecoveryStats(error_contexts).attempted + 1
             /\ RecoveryStats(error_contexts').successful =
                   RecoveryStats(error_contexts).successful + 1]_vars

\* C30: _check_and_improve neither drains the Action Queue nor plans or
\* applies any optimization when less than improvement_interval has elapsed
\* since last_improvement; in that case the queue, the store, the history
\* and last_improvement are all unchanged.
C30_EarlyCheckChangesNothing ==
    [][(ticks' # ticks /\ now' - last_improvement < improvement_interval) =>
          /\ pending' = pending
          /\ drained' = drained
          /\ config' = config
          /\ optimization_history' = optimization_history
          /\ last_improvement' = last_improvement
          /\ attempt' = attempt
          /\ todo' = todo
          /\ rolled_back' = rolled_back
          /\ pc' = pc]_vars

\* A loop iteration has run with an action in the queue, less than
\* improvement_interval after last_improvement: the action was queued before
\* the clock last moved, nothing was ever drained, and the action is still
\* queued.
C30_Witness ==
    /\ ticks >= 1
    /\ pc = "sleeping"
    /\ pending # <<>>
    /\ pending[1].timestamp < now
    /\ now - last_improvement < improvement_interval
    /\ drained = 0
    /\ optimization_history = <<>>

\* C31: whenever at least improvement_interval has elapsed since
\* last_improvement, for any elapsed duration including more than 24 hours,
\* and the queue is non-empty, the next tick of the loop drains the queue and
\* processes it; pending actions are never postponed once the interval has
\* elapsed.
C31_ElapsedIntervalDrainsQueue ==
    [][(/\ ticks' # ticks
        /\ pending # <<>>
        /\ now' - last_improvement >= improvement_interval)
       => (pending' = <<>> /\ drained' = drained + Len(pending))]_vars

\* A store key holds a value that a result in the Optimization History wrote.
Accounted(key) ==
    \E i \in 1..Len(optimization_history) :
       LET result == optimization_history[i]
       IN  \E j \in 1..Len(result.changes_made) :
              /\ ConfigKey(result.target_module, result.changes_made[j].k) = key
              /\ result.changes_made[j].v.new = config[key]

\* C32: whenever no optimization attempt is in flight (also after a
\* cancelled cooldown or after a rollback), every Configuration Store value
\* that differs from its initial value was written by an optimization that
\* is recorded in Optimization History.
C32_HistoryAccountsForStore ==
    pc # "cooldown" =>
       \E initial \in InitialStores :
          \A key \in StoreKeys : config[key] # initial[key] => Accounted(key)

\* The snapshots of every kind that were recorded at or after a time.
RecordedSince(history, t) ==
    [m \in DOMAIN history |->
        LET Later(s) == s.timestamp >= t
        IN  SelectSeq(history[m], Later)]

\* C33: the Impact Monitor computes each delta only from snapshots of the
\* target module recorded after the change was applied: the impact an
\* attempt is resolved on is the impact measured on the snapshots recorded
\* since its apply, and it is empty when there are none.
C33_ImpactUsesSnapshotsSinceChange ==
    [][Resolving =>
          LET since == RecordedSince(performance_history, attempt[1].result.timestamp)
          IN  MeasuredImpact =
                 Impact(GetModulePerformance(since, attempt[1].module),
                        attempt[1].baseline)]_vars

\* ------------------------------------------------------------ the planner alone

\* _generate_optimization called on its own between two cycles, as
\* test_generate_optimization does, on the store, queue and history the loop
\* has left.  The batch is one action per priority of PriorityMenu.
PriorityMenu == { <<3>>, <<4>>, <<1, 5>>, <<2, 3>> }

PriorityBatch(module, priorities) ==
    [i \in 1..Len(priorities) |->
        [action_type |-> "optimize_performance", target_module |-> module,
         metric |-> "None", priority |-> priorities[i], timestamp |-> 0]]

CallGenerateOptimization ==
    /\ pc = "sleeping"
    /\ calls < MaxPlans
    /\ calls' = calls + 1
    /\ \E module \in Modules, opt_type \in OptimizationType, priorities \in PriorityMenu :
          LET actions == PriorityBatch(module, priorities)
          IN  call' = <<[op |-> "generate", module |-> module, opt_type |-> opt_type,
                         actions |-> actions,
                         optimization |->
                            GenerateOptimization(config, module, opt_type, actions)]>>
    /\ UNCHANGED <<config, optimization_history, last_improvement, now, pending,
                   performance_history, pc, current_time, todo, attempt, ticks,
                   rolled_back, enqueued, recorded, drained>>
    /\ UNCHANGED agent_vars
    /\ UNCHANGED handler_vars
    /\ UNCHANGED writing

PlannerNext == Enqueue \/ Tick \/ AfterCooldown \/ CallGenerateOptimization

PlannerSpec == Init /\ [][PlannerNext]_vars

\* The step is a call of the planner that returned a parameter-tuning proposal.
Planned == calls' # calls /\ call'[1].op = "generate"

Tuned == Planned /\ call'[1].optimization.type = PARAMETER_TUNING

\* C34: a call of _generate_optimization leaves the Configuration Store, the
\* Action Queue and the Optimization History as they were, and a
\* parameter-tuning proposal records in rollback_data the store's current
\* value of every parameter it proposes.
C34_PlannerIsPure ==
    [][Planned =>
          /\ config' = config
          /\ pending' = pending
          /\ optimization_history' = optimization_history
          /\ LET optimization == call'[1].optimization
             IN  optimization.type = PARAMETER_TUNING =>
                    \A param \in DictKeys(optimization.parameters) :
                       /\ DictHas(optimization.rollback_data, param)
                       /\ DictVal(optimization.rollback_data, param)
                             = config[ConfigKey(optimization.module, param)]]_vars

\* A tuning proposal was planned while the queue held an action, on a store
\* an earlier cycle has changed.
C34_Witness ==
    /\ call # <<>>
    /\ call[1].op = "generate"
    /\ call[1].optimization.type = PARAMETER_TUNING
    /\ call[1].optimization.parameters # <<>>
    /\ pending # <<>>
    /\ ticks > 0
    /\ config \notin InitialStores

\* The parameters whose name implies a timeout or an interval.
ImpliesTimeoutOrInterval(param) ==
    param \in {"cache_timeout", "context_timeout", "request_timeout",
               "monitoring_interval"}

\* C35: a parameter-tuning proposal gives a timeout or interval parameter a
\* value not above the store's current one, and every other parameter a
\* value not below it.
C35_TimeoutsDownOthersUp ==
    [][Tuned =>
          LET optimization == call'[1].optimization
          IN  \A param \in DictKeys(optimization.parameters) :
                 LET current_val == config[ConfigKey(optimization.module, param)]
                     new_val == DictVal(optimization.parameters, param)
                 IN  IF ImpliesTimeoutOrInterval(param)
                     THEN RLeq(new_val, current_val)
                     ELSE RLeq(current_val, new_val)]_vars

\* A value brought into a (min, max) range.
Clamped(value, range) == RMax(range[1], RMin(range[2], value))

\* C36: the fraction a tuning proposal moves its parameters by is 30% when an
\* action of the batch has priority 4 or 5 and 10% otherwise, one fraction for
\* all parameters of the proposal: every new value is the current value moved
\* down or up by that fraction and then clamped to the safe range.
C36_AdjustmentMagnitude ==
    [][Tuned =>
          LET optimization == call'[1].optimization
              actions == call'[1].actions
              fraction ==
                 IF \E i \in 1..Len(actions) : actions[i].priority \in {4, 5}
                 THEN Rat(3, 10)
                 ELSE Rat(1, 10)
          IN  \A param \in DictKeys(optimization.parameters) :
                 LET current_val == config[ConfigKey(optimization.module, param)]
                     range == DictVal(optimization_configs[optimization.module], param)
                 IN  DictVal(optimization.parameters, param)
                        \in { Clamped(RMul(current_val, RSub(Int2Rat(1), fraction)), range),
                              Clamped(RMul(current_val, RAdd(Int2Rat(1), fraction)), range) }]_vars

\* A batch with a priority-5 action behind a priority-1 action moved a
\* parameter by 30%, unclamped, in a proposal of several parameters.
C36_Witness ==
    /\ call # <<>>
    /\ call[1].op = "generate"
    /\ call[1].optimization.type = PARAMETER_TUNING
    /\ Len(call[1].actions) = 2
    /\ call[1].actions[2].priority = 5
    /\ \E param \in DictKeys(call[1].optimization.parameters) :
          /\ ~EndsWithTimeout(param)
          /\ DictVal(call[1].optimization.parameters, param)
                = RMul(config[ConfigKey(call[1].optimization.module, param)], Rat(13, 10))
    /\ Len(call[1].optimization.parameters) > 1

\* ------------------------------------------------------------ grouping

\* A cycle that drains several actions at once: the Improvement Planner has
\* queued up to MaxBatch actions for two modules before the interval elapsed.
GroupMenu ==
    { Action("emergency_optimization", "api_client", "api_latency", 5),
      Action("optimize_performance", "api_client", "api_latency", 3),
      Action("optimize_performance", "business_intelligence", "research_accuracy", 4),
      Action("update_decision_weights", "business_intelligence", "None", 3) }

EnqueueBatch ==
    /\ enqueued = 0
    /\ \E n \in 1..MaxBatch :
          \E actions \in [1..n -> GroupMenu] :
             /\ pending' = [i \in 1..n |->
                               [action_type |-> actions[i].action_type,
                                target_module |-> actions[i].target_module,
                                metric |-> actions[i].metric,
                                priority |-> actions[i].priority,
                                timestamp |-> now]]
             /\ enqueued' = n
    /\ UNCHANGED <<config, optimization_history, last_improvement, now,
                   performance_history, pc, current_time, todo, attempt, ticks,
                   rolled_back, call, recorded, calls, drained>>
    /\ UNCHANGED agent_vars
    /\ UNCHANGED handler_vars
    /\ UNCHANGED writing

BatchNext == EnqueueBatch \/ Tick \/ AfterCooldown

BatchSpec == Init /\ [][BatchNext]_vars

\* The step drains the queue.
Draining == pc = "sleeping" /\ pending # <<>> /\ pending' = <<>>

\* All drained actions for a module, in the order they were drained.
ModuleBatch(improvements, module) ==
    LET ForModule(a) == a.target_module = module
    IN  SelectSeq(improvements, ForModule)

\* The batches are one per module named by a drained action, each all the
\* drained actions for its module.
OneBatchPerModule(groups, improvements) ==
    /\ \A i, j \in 1..Len(groups) : groups[i].k = groups[j].k => i = j
    /\ {groups[i].k : i \in 1..Len(groups)}
          = {improvements[i].target_module : i \in 1..Len(improvements)}
    /\ \A i \in 1..Len(groups) : groups[i].v = ModuleBatch(improvements, groups[i].k)

IsSuffix(s, t) ==
    /\ Len(s) <= Len(t)
    /\ s = SubSeq(t, Len(t) - Len(s) + 1, Len(t))

\* The step hands batches of groups to the planner from the front: the
\* batches not yet handed over are the rest of groups, and an attempt
\* started is for the last batch handed over and of the type all its
\* actions determine.
HandedInTurn(groups) ==
    /\ IsSuffix(todo', groups)
    /\ IF attempt' = <<>>
       THEN todo' = <<>>
       ELSE /\ Len(todo') < Len(groups)
            /\ LET batch == groups[Len(groups) - Len(todo')]
               IN  /\ attempt'[1].module = batch.k
                   /\ attempt'[1].result.optimization_type
                         = DetermineOptimizationType(batch.v)

\* C37: the actions a cycle drains are grouped into one batch per target
\* module, each batch all the drained actions for its module, so every
\* action is in exactly one batch; the batches are handed to the planner one
\* after the other, each once and whole, also across the cooldown sleeps.
C37_OneCompleteBatchPerModule ==
    [][/\ Draining =>
             LET improvements == GetPendingImprovements(pending)
                 groups == GroupByModule(improvements, Len(improvements))
             IN  /\ OneBatchPerModule(groups, improvements)
                 /\ HandedInTurn(groups)
       /\ pc = "cooldown" => HandedInTurn(todo)]_vars

\* Three actions were drained, the one for api_client between two for
\* business_intelligence: the attempt in flight is the model update that the
\* two together determine, and the api_client batch is still to be handed over.
C37_Witness ==
    /\ pc = "cooldown"
    /\ drained = MaxBatch
    /\ attempt[1].module = "business_intelligence"
    /\ attempt[1].result.optimization_type = MODEL_UPDATE
    /\ Len(todo) = 1
    /\ todo[1].k = "api_client"
    /\ Len(todo[1].v) = 1
    /\ todo[1].v[1].priority = 3

\* ------------------------------------------------------------ containment

\* The groups for which the planner returns a proposal on the store.
Plannable(cfg, groups) ==
    {i \in 1..Len(groups) :
        GenerateOptimization(cfg, groups[i].k, DetermineOptimizationType(groups[i].v),
                             groups[i].v) # NoOptimization}

\* The groups with a proposal that the step has handed over without starting
\* an attempt for them: their apply has failed.
FailedIn(groups) ==
    LET handed == Len(groups) - Len(todo')
    IN  {i \in Plannable(config, groups) :
            /\ i <= handed
            /\ attempt' = <<>> \/ i < handed}

TickedAfterFailedApply ==
    /\ ticks = MaxTicks
    /\ drained = MaxQueue
    /\ rolled_back = {}
    /\ optimization_history = <<>>
    /\ pc = "cooldown"
    /\ attempt[1].result.timestamp > improvement_interval
    /\ attempt[1].module = "business_intelligence"
    /\ config["api_client_request_timeout"] = Int2Rat(7)
    /\ config["api_client_retry_attempts"] = Int2Rat(3)

\* ------------------------------------------------------------ decisions

\* C39: when record_decision has run, the outcome is the last entry of the
\* decision history, and the call has recorded exactly one improvement action
\* if the outcome's impact is negative and none if it is zero or positive.
C39_NegativeOutcomeRecordsOneAction ==
    (call # <<>> /\ call[1].op = "record_decision") =>
        /\ decision_history # <<>>
        /\ decision_history[Len(decision_history)] = call[1].outcome
        /\ Len(CreatedBy(call[1]))
              = IF RLess(call[1].outcome.impact, Int2Rat(0)) THEN 1 ELSE 0

====
